---- MODULE Spec2Model ----
(***************************************************************************)
(* The lobby / game-round coordinator of the poker server.                 *)
(*                                                                         *)
(* One game lobby with its seated players, and one session task per seat   *)
(* running five_card_game_state_machine (Spec) or                          *)
(* texas_holdem_game_state_machine (SpecTexas).  A session owns a clone of *)
(* its Player (player[n]); the lobby owns its own copy of every Player     *)
(* (players).  Indices are 0-based as in the code; the i-th seat of the    *)
(* players vector is players[i + 1].                                       *)
(***************************************************************************)
EXTENDS Integers, Sequences, FiniteSets, TLC

\* ------------------------------------------------------------- bounds
NumPlayers == 3
MaxQueue == 1
MaxLeft == 1

\* wallets the account store may hold for a seat when the round starts
WalletChoices == {4, 11, 12}
\* the same for the specifications with more to explore
FewWalletChoices == {4, 12}
\* and for the one with frames in flight: every seat can pay the ante
EarlyWalletChoices == {11}
\* amounts a client may put in a Raise frame
RaiseAmounts == {0, 1, 2}
\* index lists a client may put in a DrawCards frame
DrawChoices == {<< >>, <<0>>, <<5>>}

\* ------------------------------------------------------------- constants
AnteAmount == 10
HandSize == 5
DeckSize == 52

Names == 1..NumPlayers

\* the clients whose sessions are in the server lobby or in one of its lobbies
NumClients == 2
Clients == 1..NumClients
\* the empty name: no seat on turn, no session holding the lobby's lock
NoName == 0

VARIABLES
    lobby,      \* the fields of the game Lobby
    players,    \* Lobby.players: the lobby's copy of every seated Player
    player,     \* player[n]: the clone of Player owned by the session of n
    pc,         \* pc[n]: where the session of n is in its state machine
    rx,         \* rx[n]: play frames the client of n sent ahead of its turn, unread
    guard,      \* the session holding the lobby's lock between two steps
    store,      \* the account store: one row per player name
    deal_card_counter, \* deal_card_counter[n]: the local of the Texas session of n
    paid,       \* history: chips each seat was charged by the round's code
    acted,      \* history: seats that acted since the phase began or the last raise
    snap,       \* history: bets as they were when the last betting phase closed
    last,       \* history: the last play frame a session handled
    heap,       \* every Lobby created by CreateLobby, by the order of creation
    lobbies,    \* the server lobby's lobbies: the created lobbies it lists
    lobby_names_and_status, \* the server lobby's table of its lobbies
    server_guard, \* the session holding the server lobby's lock between two steps
    session,    \* session[c]: where the session of c is outside a game
    hand,       \* the cards handed to get_hand_type or get_best_hand
    score,      \* the tuple the call returned
    deck,       \* a Deck: its cards and its next_card_index
    dealt,      \* the cards deal() has returned since the deck was made or shuffled
    table,      \* the players table of the database: its rows, as inserted
    spectators, \* Lobby.spectators of the lobby that is watched
    tx,         \* tx[n]: the frames sent down the connection of n, in order
    task        \* task[c]: the lock calls of the handler the session of c runs

regvars == <<heap, lobbies, lobby_names_and_status, server_guard, session>>

gamevars == <<lobby, players, player, pc, rx, guard, store, deal_card_counter,
              paid, acted, snap, last>>

purevars == <<hand, score, deck, dealt, table, spectators, tx, task>>

vars == <<gamevars, regvars, purevars>>

\* ------------------------------------------------------------- frames
PlayFrames ==
    [action : {"Check", "Fold", "Call", "AllIn"}, arg : {0}]
        \cup [action : {"Raise"}, arg : RaiseAmounts]
        \cup [action : {"DrawCards"}, arg : DrawChoices]

Frames == PlayFrames \cup [action : {"Disconnect"}, arg : {0}]

\* ------------------------------------------------------------- Lobby API
IndexOf(name) ==
    IF \E i \in 1..Len(players) : players[i].name = name
    THEN CHOOSE i \in 1..Len(players) : players[i].name = name
    ELSE 0

update_player_state(ps, name, st) ==
    [i \in 1..Len(ps) |-> IF ps[i].name = name THEN [ps[i] EXCEPT !.state = st] ELSE ps[i]]

update_player_hand(ps, name, h) ==
    [i \in 1..Len(ps) |-> IF ps[i].name = name THEN [ps[i] EXCEPT !.hand = h] ELSE ps[i]]

\* the lobby's entry of p.name is replaced by the session's clone
update_player_reference(ps, p) ==
    [i \in 1..Len(ps) |-> IF ps[i].name = p.name THEN p ELSE ps[i]]

\* true when at most one seat is not FOLDED
check_end_game(ps) ==
    Cardinality({i \in 1..Len(ps) : ps[i].state # "FOLDED"}) <= 1

\* Lobby::clear_betting: zero every current_bet of the lobby's players ...
clear_betting(ps) ==
    [i \in 1..Len(ps) |-> [ps[i] EXCEPT !.current_bet = 0]]

\* ... and the lobby's current_max_bet
clear_max_bet(lb) == [lb EXCEPT !.current_max_bet = 0]

\* Lobby::get_next_player: the index it stops at, or -1 when its loop never
\* ends (every seat FOLDED), or -2 when it indexes past the players vector.
RECURSIVE NextFrom(_, _, _, _)
NextFrom(ps, count, i, n) ==
    IF n > count THEN -1
    ELSE IF i + 1 > Len(ps) THEN -2
    ELSE IF ps[i + 1].state # "FOLDED" THEN i
    ELSE NextFrom(ps, count, (i + 1) % count, n + 1)

get_next_player(lb, ps, reset) ==
    NextFrom(ps, lb.current_player_count,
             IF reset THEN lb.first_betting_player
             ELSE (lb.current_player_index + 1) % lb.current_player_count, 1)

\* the lobby after get_next_player stopped at index i
WithTurn(lb, ps, i) ==
    [lb EXCEPT !.current_player_index = i, !.current_player_turn = ps[i + 1].name]

\* A step of the state machine ends in get_next_player: the lobby and the
\* players after it, and how the call ended ("ok", "hung" in its loop with
\* the lock held, or "panic" on an index out of bounds).
Turn(lb, ps, reset) ==
    LET i == get_next_player(lb, ps, reset)
    IN [lb  |-> IF i >= 0 THEN WithTurn(lb, ps, i) ELSE lb,
        ps  |-> ps,
        how |-> IF i >= 0 THEN "ok" ELSE IF i = -1 THEN "hung" ELSE "panic"]

Done(lb, ps) == [lb |-> lb, ps |-> ps, how |-> "ok"]

\* ------------------------------------------------------------- betting_round
\* The outcome of betting_round(player, lobby, action): the clone p and the
\* lobby lb after it, whether the action was valid, and whether it asks for
\* the turn counter to be reset.  One operator per arm of its match.
Invalid(p, lb) == [valid |-> FALSE, reset |-> FALSE, p |-> p, lb |-> lb]

\* Check without its test of the bets
CheckAlways(p, lb) ==
    [valid |-> TRUE, reset |-> FALSE, p |-> [p EXCEPT !.state = "CHECKED"], lb |-> lb]

Check(p, lb) ==
    IF p.current_bet = lb.current_max_bet /\ lb.current_max_bet = 0
    THEN [valid |-> TRUE, reset |-> FALSE,
          p |-> [p EXCEPT !.state = "CHECKED"], lb |-> lb]
    ELSE Invalid(p, lb)

Fold(p, lb) ==
    [valid |-> TRUE, reset |-> FALSE, p |-> [p EXCEPT !.state = "FOLDED"], lb |-> lb]

\* Call that refuses a wallet exactly equal to the call amount
CallStrict(p, lb) ==
    LET call_amount == lb.current_max_bet - p.current_bet
    IN IF p.wallet > call_amount
       THEN [valid |-> TRUE, reset |-> FALSE,
             p |-> [p EXCEPT !.wallet = p.wallet - call_amount,
                             !.current_bet = lb.current_max_bet,
                             !.state = IF p.wallet - call_amount = 0
                                       THEN "ALL_IN" ELSE "CALLED"],
             lb |-> [lb EXCEPT !.pot = lb.pot + call_amount]]
       ELSE Invalid(p, lb)

Call(p, lb) ==
    LET call_amount == lb.current_max_bet - p.current_bet
    IN IF p.wallet >= call_amount
       THEN [valid |-> TRUE, reset |-> FALSE,
             p |-> [p EXCEPT !.wallet = p.wallet - call_amount,
                             !.current_bet = lb.current_max_bet,
                             !.state = IF p.wallet - call_amount = 0
                                       THEN "ALL_IN" ELSE "CALLED"],
             lb |-> [lb EXCEPT !.pot = lb.pot + call_amount]]
       ELSE Invalid(p, lb)

\* Raise that does not ask for the turn counter to be reset
RaiseNoReset(p, lb, amount) ==
    IF amount > 0 /\ amount <= p.wallet /\ amount > lb.current_max_bet - p.current_bet
    THEN [valid |-> TRUE, reset |-> FALSE,
          p |-> [p EXCEPT !.wallet = p.wallet - amount,
                          !.current_bet = p.current_bet + amount,
                          !.state = IF p.wallet - amount = 0 THEN "ALL_IN" ELSE "RAISED"],
          lb |-> [lb EXCEPT !.pot = lb.pot + amount,
                            !.current_max_bet = p.current_bet + amount]]
    ELSE Invalid(p, lb)

Raise(p, lb, amount) ==
    IF amount > 0 /\ amount <= p.wallet /\ amount > lb.current_max_bet - p.current_bet
    THEN [valid |-> TRUE, reset |-> TRUE,
          p |-> [p EXCEPT !.wallet = p.wallet - amount,
                          !.current_bet = p.current_bet + amount,
                          !.state = IF p.wallet - amount = 0 THEN "ALL_IN" ELSE "RAISED"],
          lb |-> [lb EXCEPT !.pot = lb.pot + amount,
                            !.current_max_bet = p.current_bet + amount]]
    ELSE Invalid(p, lb)

AllIn(p, lb) ==
    LET all_in_amount == p.wallet
        lifts == p.current_bet + all_in_amount > lb.current_max_bet
    IN [valid |-> TRUE, reset |-> lifts,
        p |-> [p EXCEPT !.state = "ALL_IN", !.wallet = 0,
                        !.current_bet = p.current_bet + all_in_amount],
        lb |-> [lb EXCEPT !.pot = lb.pot + all_in_amount,
                          !.current_max_bet = IF lifts THEN p.current_bet + all_in_amount
                                              ELSE @]]

betting_round(p, lb, f) ==
    CASE f.action = "Check" -> Check(p, lb)
      [] f.action = "Fold" -> Fold(p, lb)
      [] f.action = "Call" -> Call(p, lb)
      [] f.action = "Raise" -> Raise(p, lb, f.arg)
      [] f.action = "AllIn" -> AllIn(p, lb)
      [] OTHER -> Invalid(p, lb)

\* ------------------------------------------------------------- sessions
PlayStates == {"FIRST_BETTING_ROUND", "DRAW", "SECOND_BETTING_ROUND", "BETTING_ROUND"}

NoFrame == [name |-> NoName, action |-> "none", arg |-> 0,
            valid |-> FALSE, reset |-> FALSE, offturn |-> FALSE, sent |-> {}]

\* the frames sent to the client of the seat on turn between the read of its
\* frame f in a betting phase and the end of the turn or the next read
Replies(f, valid) ==
    IF valid /\ f.action = "Check" THEN {"Checked"} ELSE {}
NoSnap == [phase |-> "none", max |-> 0, seats |-> << >>]

NewPlayer(n, w) ==
    [name |-> n, state |-> "IN_LOBBY", wallet |-> w, current_bet |-> 0,
     hand |-> << >>, games_played |-> 0, games_won |-> 0, ready |-> FALSE]

\* Lobby::new
InitLobby(type) ==
    [game_type |-> type, game_state |-> "JOINABLE", pot |-> 0, current_max_bet |-> 0,
     turns_remaining |-> 0, first_betting_player |-> 0,
     current_player_index |-> 0, current_player_turn |-> NoName,
     current_player_count |-> 0, next_card_index |-> 0,
     community_cards |-> << >>]

\* Lobby::add_player for every seat
Seated(lb) == [lb EXCEPT !.current_player_count = NumPlayers]

\* every seat is ready: turns_remaining counts the StartGame frames to come
AllReady(lb) == [lb EXCEPT !.turns_remaining = lb.current_player_count]

\* a session in the server lobby, waiting for a frame of its client
InServer == [at |-> "server", name |-> "", type |-> "", lobby |-> 0, i |-> 0,
             result |-> "", reply |-> ""]

\* the server lobby with no game lobby created
NoLobbies ==
    /\ heap = << >>
    /\ lobbies = << >>
    /\ lobby_names_and_status = << >>
    /\ server_guard = NoName
    /\ session = [c \in Clients |-> InServer]

InitGame(type, wallets) ==
    /\ lobby = AllReady(Seated(InitLobby(type)))
    /\ store \in [Names -> [wallet : wallets, games_played : {0}, games_won : {0}]]
    /\ players = [i \in 1..NumPlayers |-> NewPlayer(i, store[i].wallet)]
    /\ player = [n \in Names |-> NewPlayer(n, store[n].wallet)]
    /\ pc = [n \in Names |-> "lobby"]
    /\ rx = [n \in Names |-> 0]
    /\ guard = NoName
    /\ deal_card_counter = [n \in Names |-> 1]
    /\ paid = [n \in Names |-> 0]
    /\ acted = {}
    /\ snap = NoSnap
    /\ last = NoFrame

\* no call of the hand evaluator and no deck apart from the lobby's
NoScore == << >>
NoCalls ==
    /\ hand = << >>
    /\ score = NoScore
    /\ deck = [cards |-> << >>, next_card_index |-> 0]
    /\ dealt = << >>
    /\ table = << >>
    /\ spectators = << >>
    /\ tx = << >>
    /\ task = << >>

InitWith(type, wallets) == InitGame(type, wallets) /\ NoLobbies /\ NoCalls

Init == InitWith("FIVE_CARD_DRAW", WalletChoices)

InitFew == InitWith("FIVE_CARD_DRAW", FewWalletChoices)

\* The frame a read of the session's stream returns: the oldest unread frame
\* sent ahead of the turn, or, with none waiting, the frame the client sends
\* next.  What an unread frame holds shows only when it is read.
Reads(n, f) == IF rx[n] > 0 THEN f \in PlayFrames ELSE f \in Frames
SentOffTurn(n) == rx[n] > 0
Consume(n) == IF rx[n] > 0 THEN [rx EXCEPT ![n] = @ - 1] ELSE rx

\* A play frame of an off-turn client in flight: the session of n has read
\* a frame at the bottom of its loop and the client's next frame reaches
\* the stream before the session reads again.
ClientSend(n) ==
    /\ pc[n] = "bottom"
    /\ lobby.current_player_turn # n
    /\ lobby.game_state \in PlayStates
    /\ rx[n] < MaxQueue
    /\ rx' = [rx EXCEPT ![n] = @ + 1]
    /\ pc' = [pc EXCEPT ![n] = "top"]
    /\ UNCHANGED <<lobby, players, player, guard, store, deal_card_counter,
                   paid, acted, snap, last>>
    /\ UNCHANGED <<regvars, purevars>>

\* Lobby::setup_game
setup_game(lb, ps) ==
    LET first == (lb.first_betting_player + 1) % lb.current_player_count
    IN [lb EXCEPT !.first_betting_player = first,
                  !.current_player_index = first,
                  !.current_player_turn = ps[first + 1].name,
                  !.game_state = "START_OF_ROUND",
                  !.next_card_index = 0]

\* IN_LOBBY loop, StartGame; then the session enters its in-game branch,
\* which reloads the wallet of its clone from the store.
StartGame(n) ==
    /\ pc[n] = "lobby"
    /\ guard = NoName
    /\ LET lb == [lobby EXCEPT !.turns_remaining = @ - 1]
       IN lobby' = IF lb.turns_remaining = 0 THEN setup_game(lb, players) ELSE lb
    /\ players' = update_player_state(players, n, "IN_GAME")
    /\ player' = [player EXCEPT ![n].state = "IN_GAME",
                                ![n].wallet = store[n].wallet,
                                ![n].games_played = 0,
                                ![n].games_won = 0]
    /\ pc' = [pc EXCEPT ![n] = "top"]
    /\ UNCHANGED <<rx, guard, store, deal_card_counter, paid, acted, snap, last>>
    /\ UNCHANGED <<regvars, purevars>>

\* The session holds the lock and it is its turn.
OnTurn(n, state) ==
    /\ pc[n] = "top"
    /\ guard = NoName
    /\ lobby.current_player_turn = n
    /\ lobby.game_state = state

\* How a step that ends in get_next_player leaves the session.
After(n, r) ==
    /\ lobby' = r.lb
    /\ players' = r.ps
    /\ pc' = [pc EXCEPT ![n] = CASE r.how = "ok" -> "bottom"
                                  [] r.how = "continue" -> "top"
                                  [] r.how = "hung" -> "hung"
                                  [] OTHER -> "panicked"]
    /\ guard' = IF r.how = "hung" THEN n ELSE NoName

\* try_lock fails, or it is not the turn of n: on to the read at the bottom
\* of the loop, which drops the frame waiting in the stream, if any.
NotMyTurn(n) ==
    /\ pc[n] = "top"
    /\ guard # NoName \/ lobby.current_player_turn # n
    /\ pc' = [pc EXCEPT ![n] = "bottom"]
    /\ rx' = [rx EXCEPT ![n] = 0]
    /\ UNCHANGED <<lobby, players, player, guard, store, deal_card_counter, paid, acted, snap, last>>
    /\ UNCHANGED <<regvars, purevars>>

\* JOINABLE => continue: the session tries the lock again at once.
Joinable(n) ==
    /\ OnTurn(n, "JOINABLE")
    /\ UNCHANGED vars
    /\ UNCHANGED <<regvars, purevars>>

StartOfRound(n) ==
    /\ OnTurn(n, "START_OF_ROUND")
    /\ lobby' = [lobby EXCEPT !.game_state = "ANTE",
                              !.turns_remaining = lobby.current_player_count]
    /\ pc' = [pc EXCEPT ![n] = "bottom"]
    /\ UNCHANGED <<players, player, rx, guard, store, deal_card_counter, paid, acted, snap, last>>
    /\ UNCHANGED <<regvars, purevars>>

\* the phase after a forced-bet or deal phase, by check_end_game
AfterPhase(lb, ps, next) ==
    [lb EXCEPT !.game_state = IF check_end_game(ps) THEN "SHOWDOWN" ELSE next,
               !.turns_remaining = lb.current_player_count]

Ante(n) ==
    /\ OnTurn(n, "ANTE")
    /\ LET pays == player[n].wallet > AnteAmount
           p == IF pays
                THEN [player[n] EXCEPT !.wallet = @ - AnteAmount,
                                       !.games_played = @ + 1]
                ELSE [player[n] EXCEPT !.state = "FOLDED"]
           ps == IF pays THEN update_player_reference(players, p)
                 ELSE update_player_state(players, n, "FOLDED")
           lb == [lobby EXCEPT !.pot = IF pays THEN @ + AnteAmount ELSE @,
                               !.turns_remaining = @ - 1]
       IN /\ player' = [player EXCEPT ![n] = p]
          /\ paid' = [paid EXCEPT ![n] = IF pays THEN @ + AnteAmount ELSE @]
          /\ After(n, IF lb.turns_remaining = 0
                      THEN Turn(AfterPhase(lb, ps, "DEAL_CARDS"), ps, TRUE)
                      ELSE Turn(lb, ps, FALSE))
    /\ UNCHANGED <<rx, store, deal_card_counter, acted, snap, last>>
    /\ UNCHANGED <<regvars, purevars>>

\* a deal that returns the card before the cursor
deal_before(lb) == IF lb.next_card_index > 0 THEN lb.next_card_index - 1 ELSE 0

\* Deck::deal: the card at the cursor; a card is named by its place in the
\* shuffled deck.
deal(lb) == lb.next_card_index

DealCards(n) ==
    /\ OnTurn(n, "DEAL_CARDS")
    /\ lobby.next_card_index < DeckSize
    /\ IF player[n].state # "FOLDED" /\ Len(player[n].hand) < HandSize
       THEN LET h == Append(player[n].hand, deal(lobby))
                ps == update_player_hand(players, n, h)
                lb == [lobby EXCEPT !.next_card_index = @ + 1]
            IN /\ player' = [player EXCEPT ![n].hand = h]
               /\ After(n, Turn(lb, ps, FALSE))
       ELSE IF player[n].state # "FOLDED" /\ lobby.turns_remaining = 1
       THEN LET r == Turn(AfterPhase(lobby, players, "FIRST_BETTING_ROUND"), players, TRUE)
            IN /\ After(n, [r EXCEPT !.how = IF @ = "ok" THEN "continue" ELSE @])
               /\ UNCHANGED player
       ELSE LET lb == IF player[n].state # "FOLDED"
                      THEN [lobby EXCEPT !.turns_remaining = @ - 1] ELSE lobby
            IN /\ After(n, Turn(lb, players, FALSE))
               /\ UNCHANGED player
    /\ acted' = {}
    /\ UNCHANGED <<rx, store, deal_card_counter, paid, snap, last>>
    /\ UNCHANGED <<regvars, purevars>>

\* ------------------------------------------------------------- betting phases
BettingStates == {"FIRST_BETTING_ROUND", "SECOND_BETTING_ROUND", "BETTING_ROUND"}

Seats(ps) == [i \in 1..Len(ps) |->
                 [name |-> ps[i].name, state |-> ps[i].state,
                  current_bet |-> ps[i].current_bet]]

\* the turn counter left as it is after a raise
NoResetTurns(lb) == lb

\* a raise resets the turn counter
ResetTurns(lb) == [lb EXCEPT !.turns_remaining = lb.current_player_count]

\* a finished turn takes one off the turn counter
TurnTaken(lb) == [lb EXCEPT !.turns_remaining = @ - 1]

\* The end of a seat's turn in a betting round: the counter, the end of the
\* game, the end of the phase, the next seat.
EndTurn(lb0, ps) ==
    LET lb == TurnTaken(lb0)
    IN IF check_end_game(ps)
       THEN Done(clear_max_bet([lb EXCEPT !.game_state = "SHOWDOWN"]), clear_betting(ps))
       ELSE IF lb.turns_remaining = 0
       THEN Turn(clear_max_bet(
                   [lb EXCEPT !.game_state =
                                  CASE @ = "FIRST_BETTING_ROUND" -> "DRAW"
                                    [] @ = "SECOND_BETTING_ROUND" -> "SHOWDOWN"
                                    [] OTHER -> @,
                              !.turns_remaining = lb.current_player_count]),
                 clear_betting(ps), TRUE)
       ELSE Turn(lb, ps, FALSE)

\* whether EndTurn closes the betting phase
Closes(lb0, ps) == check_end_game(ps) \/ lb0.turns_remaining = 1

EndTurnHistory(n, lb, ps, reset) ==
    /\ snap' = IF Closes(lb, ps)
               THEN [phase |-> lb.game_state, max |-> lb.current_max_bet, seats |-> Seats(ps)]
               ELSE NoSnap
    /\ acted' = IF Closes(lb, ps) THEN {}
                ELSE IF reset THEN {n} ELSE acted \cup {n}

\* The on-turn session enters the betting round: a FOLDED or ALL_IN clone
\* is skipped, any other waits for a frame of its client with the lock held.
BettingRound(n) ==
    /\ \E st \in BettingStates : OnTurn(n, st)
    /\ IF player[n].state # "FOLDED" /\ player[n].state # "ALL_IN"
       THEN /\ pc' = [pc EXCEPT ![n] = "betting"]
            /\ guard' = n
            /\ snap' = NoSnap
            /\ UNCHANGED <<lobby, players, acted>>
       ELSE /\ After(n, EndTurn(lobby, players))
            /\ EndTurnHistory(n, lobby, players, FALSE)
    /\ last' = NoFrame
    /\ UNCHANGED <<player, rx, store, deal_card_counter, paid>>
    /\ UNCHANGED <<regvars, purevars>>

\* The waiting session reads a frame: Disconnect is dropped, any other frame
\* goes to betting_round; an invalid one leaves the session waiting.
BettingFrame(n) ==
    /\ pc[n] = "betting"
    /\ \E f \in Frames :
        /\ Reads(n, f)
        /\ rx' = Consume(n)
        /\ IF f.action = "Disconnect"
           THEN UNCHANGED <<lobby, players, player, pc, guard, paid, acted, snap, last>>
           ELSE LET r == betting_round(player[n], lobby, f)
                    ps == update_player_reference(players, r.p)
                    lb == IF r.reset THEN ResetTurns(r.lb) ELSE r.lb
                IN /\ last' = [name |-> n, action |-> f.action, arg |-> f.arg,
                               valid |-> r.valid, reset |-> r.reset,
                               offturn |-> SentOffTurn(n),
                               sent |-> Replies(f, r.valid)]
                   /\ player' = [player EXCEPT ![n] = r.p]
                   /\ paid' = [paid EXCEPT ![n] = @ + (r.lb.pot - lobby.pot)]
                   /\ IF r.valid
                      THEN /\ After(n, EndTurn(lb, ps))
                           /\ EndTurnHistory(n, lb, ps, r.reset)
                      ELSE /\ lobby' = r.lb
                           /\ UNCHANGED <<players, pc, guard, acted, snap>>
    /\ UNCHANGED <<store, deal_card_counter>>
    /\ UNCHANGED <<regvars, purevars>>

\* ------------------------------------------------------------- draw phase
\* the hand after the positions listed in idxs were replaced, and the cursor
RECURSIVE Exchange(_, _, _)
Exchange(h, idxs, cursor) ==
    IF idxs = << >> THEN [hand |-> h, cursor |-> cursor, panic |-> FALSE]
    ELSE IF Head(idxs) >= Len(h) THEN Exchange(h, Tail(idxs), cursor)
    ELSE IF cursor >= DeckSize THEN [hand |-> h, cursor |-> cursor, panic |-> TRUE]
    ELSE Exchange([h EXCEPT ![Head(idxs) + 1] = cursor], Tail(idxs), cursor + 1)

\* the end of a seat's turn in the draw phase
EndDraw(lb0, ps, next) ==
    LET lb == [lb0 EXCEPT !.turns_remaining = @ - 1]
    IN IF lb.turns_remaining = 0
       THEN Turn([lb EXCEPT !.game_state = next,
                            !.turns_remaining = lb.current_player_count], ps, TRUE)
       ELSE Turn(lb, ps, FALSE)

Draw(n) ==
    /\ OnTurn(n, "DRAW")
    /\ player' = [player EXCEPT ![n].current_bet = 0]
    /\ IF player[n].state # "FOLDED" /\ player[n].state # "ALL_IN"
       THEN /\ pc' = [pc EXCEPT ![n] = "drawing"]
            /\ guard' = n
            /\ UNCHANGED <<lobby, players>>
       ELSE After(n, EndDraw(lobby, players, "SHOWDOWN"))
    /\ acted' = {}
    /\ snap' = NoSnap
    /\ last' = NoFrame
    /\ UNCHANGED <<rx, store, deal_card_counter, paid>>
    /\ UNCHANGED <<regvars, purevars>>

\* The session waiting for the draw of its client handles a DrawCards
\* frame: deal() past the last card of the deck is an index out of bounds,
\* the task panics and its guard of the lobby is dropped.
DrawCards(n, f) ==
    LET x == Exchange(player[n].hand, f.arg, lobby.next_card_index)
        ps == update_player_hand(players, n, x.hand)
        lb == [lobby EXCEPT !.next_card_index = x.cursor]
    IN /\ last' = [name |-> n, action |-> f.action, arg |-> f.arg,
                   valid |-> ~x.panic, reset |-> FALSE,
                   offturn |-> SentOffTurn(n),
                   sent |-> IF x.panic THEN {} ELSE {"exchanged"}]
       /\ IF x.panic
          THEN /\ lobby' = lb
               /\ pc' = [pc EXCEPT ![n] = "panicked"]
               /\ guard' = NoName
               /\ UNCHANGED <<players, player>>
          ELSE /\ player' = [player EXCEPT ![n].hand = x.hand]
               /\ After(n, EndDraw(lb, ps, "SECOND_BETTING_ROUND"))

DrawFrame(n) ==
    /\ pc[n] = "drawing"
    /\ \E f \in Frames :
        /\ Reads(n, f)
        /\ rx' = Consume(n)
        /\ IF f.action = "DrawCards"
           THEN DrawCards(n, f)
           ELSE UNCHANGED <<lobby, players, player, pc, guard, last>>
    /\ UNCHANGED <<store, deal_card_counter, paid, acted, snap>>
    /\ UNCHANGED <<regvars, purevars>>

\* index lists that name one position of the hand more than once
LongDrawChoices == {[i \in 1..(HandSize + 1) |-> 0], [i \in 1..DeckSize |-> 0]}

\* a DrawCards frame with such a list, sent when the session asks for it
LongDraw(n) ==
    /\ pc[n] = "drawing"
    /\ rx[n] = 0
    /\ \E a \in LongDrawChoices : DrawCards(n, [action |-> "DrawCards", arg |-> a])
    /\ UNCHANGED <<rx, store, deal_card_counter, paid, acted, snap>>
    /\ UNCHANGED <<regvars, purevars>>

\* ------------------------------------------------------------- end of round
NotFolded(ps) == {i \in 1..Len(ps) : ps[i].state # "FOLDED"}

\* Lobby::showdown with the seats in w holding the best hand: the pot is
\* split among them by integer division.
showdown(ps, pot, w) ==
    [i \in 1..Len(ps) |->
        IF i \in w
        THEN [ps[i] EXCEPT !.wallet = @ + (pot \div Cardinality(w)),
                           !.games_won = @ + 1]
        ELSE ps[i]]

\* SHOWDOWN of Five Card Draw: the session locks the lobby's players to
\* collect the hands and, with that guard still in scope, calls broadcast,
\* which waits for the same lock.  The lock is not reentrant: the session
\* waits for ever, the lobby's lock in its hands, and neither showdown() nor
\* the assignment of UPDATE_DB is reached.
Showdown(n) ==
    /\ OnTurn(n, "SHOWDOWN")
    /\ pc' = [pc EXCEPT ![n] = "deadlocked"]
    /\ guard' = n
    /\ acted' = {}
    /\ snap' = NoSnap
    /\ last' = NoFrame
    /\ UNCHANGED <<lobby, players, player, rx, store, deal_card_counter, paid>>
    /\ UNCHANGED <<regvars, purevars>>

\* The statements of the SHOWDOWN arm that follow its broadcast: the pot is
\* paid and the state is UPDATE_DB.  They run only if the wait of the
\* broadcast ends, which the lock does not allow.
ShowdownTail(n) ==
    /\ pc[n] = "deadlocked"
    /\ guard = n
    /\ NotFolded(players) # {}
    /\ \E w \in SUBSET NotFolded(players) :
          /\ w # {}
          /\ players' = showdown(players, lobby.pot, w)
    /\ lobby' = [lobby EXCEPT !.game_state = "UPDATE_DB"]
    /\ pc' = [pc EXCEPT ![n] = "bottom"]
    /\ guard' = NoName
    /\ UNCHANGED <<player, rx, store, deal_card_counter, paid, acted, snap, last>>
    /\ UNCHANGED <<regvars, purevars>>

\* UPDATE_DB, and the session back in its in-game branch.
UpdateDb(n) ==
    /\ OnTurn(n, "UPDATE_DB")
    /\ players' = [i \in 1..Len(players) |->
                      [players[i] EXCEPT !.ready = FALSE, !.state = "IN_LOBBY"]]
    /\ lobby' = [lobby EXCEPT !.game_state = "JOINABLE"]
    /\ player' = [player EXCEPT ![n].wallet = store[n].wallet,
                                ![n].games_played = 0,
                                ![n].games_won = 0]
    /\ UNCHANGED <<pc, rx, guard, store, deal_card_counter, paid, acted, snap, last>>
    /\ UNCHANGED <<regvars, purevars>>

\* ------------------------------------------------------------- off turn
\* The read at the bottom of the in-game loop returns a frame other than
\* Disconnect: it is dropped and the session is back at try_lock, which
\* sends it to this read again while the lock is held or the turn is
\* another seat's.
BottomFrame(n) ==
    /\ pc[n] = "bottom"
    /\ \E f \in Frames :
        /\ Reads(n, f)
        /\ f.action # "Disconnect"
        /\ rx' = Consume(n)
        /\ pc' = [pc EXCEPT ![n] =
                     IF guard # NoName \/ lobby.current_player_turn # n
                     THEN "bottom" ELSE "top"]
    /\ UNCHANGED <<lobby, players, player, guard, store, deal_card_counter, paid, acted, snap, last>>
    /\ UNCHANGED <<regvars, purevars>>

\* Lobby::remove_player
remove_player(lb, ps, name) ==
    [lb |-> [lb EXCEPT !.current_player_count = @ - 1,
                       !.game_state = IF lb.current_player_count - 1 = 0
                                      THEN @ ELSE "JOINABLE"],
     ps |-> SelectSeq(ps, LAMBDA q : q.name # name)]

\* Database::update_player_stats
update_player_stats(st, p) ==
    [st EXCEPT ![p.name] = [wallet |-> p.wallet,
                            games_played |-> @.games_played + p.games_played,
                            games_won |-> @.games_won + p.games_won]]

Left == Cardinality({m \in Names : pc[m] = "gone"})

\* The read at the bottom of the in-game loop returns Disconnect: the
\* session waits for the lobby's lock, removes its seat from the lobby,
\* writes the statistics of its clone to the store and ends.
Disconnect(n) ==
    /\ pc[n] = "bottom"
    /\ Reads(n, [action |-> "Disconnect", arg |-> 0])
    /\ Left < MaxLeft
    /\ guard = NoName
    /\ LET r == remove_player(lobby, players, n)
       IN lobby' = r.lb /\ players' = r.ps
    /\ store' = update_player_stats(store, player[n])
    /\ pc' = [pc EXCEPT ![n] = "gone"]
    /\ UNCHANGED <<player, rx, guard, deal_card_counter, paid, acted, snap, last>>
    /\ UNCHANGED <<regvars, purevars>>

\* ------------------------------------------------------------- Texas Hold'em
SmallBlind == 5
BigBlind == 10

\* one forced bet charged to the lobby's copy of the seat at index i
Charge(ps, i, amount) ==
    [ps EXCEPT ![i + 1].wallet = @ - amount, ![i + 1].current_bet = @ + amount]

\* blinds(lobby)
blinds(lb, ps) ==
    LET small_blind_player_i == (lb.first_betting_player + 1) % lb.current_player_count
        big_blind_player_i == (lb.first_betting_player + 2) % lb.current_player_count
    IN [lb |-> [lb EXCEPT !.pot = @ + SmallBlind + BigBlind,
                          !.current_max_bet = BigBlind],
        ps |-> Charge(Charge(ps, small_blind_player_i, SmallBlind),
                      big_blind_player_i, BigBlind),
        small |-> ps[small_blind_player_i + 1].name,
        big |-> ps[big_blind_player_i + 1].name]

\* deal_cards_texas(lobby, 1): two hole cards to every seat not FOLDED, in
\* the order of the players vector, and a game played for every seat
RECURSIVE DealHole(_, _, _)
DealHole(ps, i, cursor) ==
    IF i > Len(ps) THEN [ps |-> ps, cursor |-> cursor]
    ELSE IF ps[i].state # "FOLDED"
    THEN DealHole([ps EXCEPT ![i].hand = @ \o << cursor, cursor + 1 >>,
                             ![i].games_played = @ + 1], i + 1, cursor + 2)
    ELSE DealHole([ps EXCEPT ![i].games_played = @ + 1], i + 1, cursor)

\* deal_cards_texas(lobby, round) for a round after the first: cards to the
\* community
DealCommunity(lb, round) ==
    LET k == IF round = 2 THEN 3 ELSE 1
    IN [lb EXCEPT !.community_cards = @ \o [j \in 1..k |-> lb.next_card_index + j - 1],
                  !.next_card_index = @ + k]

\* Lobby::reset_current_bets
reset_current_bets(ps) == clear_betting(ps)

TexasStartOfRound(n) ==
    /\ OnTurn(n, "START_OF_ROUND")
    /\ lobby.game_type = "TEXAS_HOLD_EM"
    /\ lobby' = [lobby EXCEPT !.game_state = "SMALL_AND_BIG_BLIND",
                              !.turns_remaining = lobby.current_player_count]
    /\ pc' = [pc EXCEPT ![n] = "bottom"]
    /\ UNCHANGED <<players, player, rx, guard, store, deal_card_counter,
                   paid, acted, snap, last>>
    /\ UNCHANGED <<regvars, purevars>>

Blinds(n) ==
    /\ OnTurn(n, "SMALL_AND_BIG_BLIND")
    /\ LET b == blinds(lobby, players)
           lb == [b.lb EXCEPT !.first_betting_player =
                                  (@ + 3) % lobby.current_player_count]
           r == Turn(lb, b.ps, TRUE)
       IN /\ After(n, [r EXCEPT !.lb.game_state = "DEAL_CARDS"])
          /\ paid' = [m \in Names |->
                         paid[m] + (IF m = b.small THEN SmallBlind ELSE 0)
                                 + (IF m = b.big THEN BigBlind ELSE 0)]
    /\ UNCHANGED <<player, rx, store, deal_card_counter, acted, snap, last>>
    /\ UNCHANGED <<regvars, purevars>>

TexasDealCards(n) ==
    /\ OnTurn(n, "DEAL_CARDS")
    /\ lobby.game_type = "TEXAS_HOLD_EM"
    /\ LET c == deal_card_counter[n]
           betting == [lobby EXCEPT !.game_state = "BETTING_ROUND",
                                    !.turns_remaining = lobby.current_player_count]
       IN CASE c = 1 ->
                 LET d == DealHole(players, 1, 0)
                 IN /\ players' = d.ps
                    /\ lobby' = [betting EXCEPT !.next_card_index = d.cursor]
            [] c \in {2, 3, 4} ->
                 /\ players' = reset_current_bets(players)
                 /\ lobby' = clear_max_bet(DealCommunity(betting, c))
            [] OTHER -> UNCHANGED <<lobby, players>>
    /\ deal_card_counter' = [deal_card_counter EXCEPT ![n] = IF @ < 4 THEN @ + 1 ELSE @]
    /\ pc' = [pc EXCEPT ![n] = "bottom"]
    /\ acted' = {}
    /\ UNCHANGED <<player, rx, guard, store, paid, snap, last>>
    /\ UNCHANGED <<regvars, purevars>>

\* SHOWDOWN: update_players_hand hands the hole cards and the community
\* cards of every seat not FOLDED to get_best_hand, which asserts that
\* they are seven; on a failed assertion the session ends in a panic.
SevenCards(lb, ps) ==
    \A i \in NotFolded(ps) : Len(ps[i].hand) + Len(lb.community_cards) = 7

TexasShowdown(n) ==
    /\ OnTurn(n, "SHOWDOWN")
    /\ lobby.game_type = "TEXAS_HOLD_EM"
    /\ IF SevenCards(lobby, players)
       THEN /\ \E w \in SUBSET NotFolded(players) :
                  /\ w # {}
                  /\ players' = showdown(players, lobby.pot, w)
            /\ lobby' = [lobby EXCEPT !.game_state = "UPDATE_DB"]
            /\ pc' = [pc EXCEPT ![n] = "bottom"]
       ELSE /\ pc' = [pc EXCEPT ![n] = "panicked"]
            /\ UNCHANGED <<lobby, players>>
    /\ acted' = {}
    /\ snap' = NoSnap
    /\ last' = NoFrame
    /\ UNCHANGED <<player, rx, guard, store, deal_card_counter, paid>>
    /\ UNCHANGED <<regvars, purevars>>

\* ------------------------------------------------------------- specifications
\* what a session does in either variant while no seat leaves
InRound(n) ==
    \/ StartGame(n)
    \/ NotMyTurn(n)
    \/ BettingRound(n)
    \/ BettingFrame(n)
    \/ BottomFrame(n)

\* and with seats leaving: remove_player makes the lobby JOINABLE again
Common(n) ==
    \/ InRound(n)
    \/ Joinable(n)

FiveCard(n) ==
    \/ StartOfRound(n)
    \/ Ante(n)
    \/ DealCards(n)
    \/ Draw(n)
    \/ DrawFrame(n)
    \/ Showdown(n)

Texas(n) ==
    \/ TexasStartOfRound(n)
    \/ Blinds(n)
    \/ TexasDealCards(n)
    \/ TexasShowdown(n)

Next == \E n \in Names : Common(n) \/ FiveCard(n) \/ Disconnect(n)

\* Five Card Draw, every frame read as soon as it is sent
Spec == Init /\ [][Next]_vars

NextEarly == \E n \in Names : InRound(n) \/ FiveCard(n) \/ ClientSend(n)

\* Five Card Draw with play frames sent ahead of the turn
SpecEarly == InitWith("FIVE_CARD_DRAW", EarlyWalletChoices) /\ [][NextEarly]_vars

NextTexas == \E n \in Names : Common(n) \/ Texas(n) \/ Disconnect(n)

\* Texas Hold'em
SpecTexas == InitWith("TEXAS_HOLD_EM", FewWalletChoices) /\ [][NextTexas]_vars

\* A step of the session of n under the claim's assumptions about the
\* clients and under the scheduler's: a session that can run does run, a
\* read gets the frame its client keeps sending, and the frame a session
\* waits for with the lock held is in the end one it accepts.
Progress(n) ==
    /\ InRound(n) \/ FiveCard(n)
    /\ pc[n] \in {"betting", "drawing"} => pc'[n] # pc[n]

NextLive == \E n \in Names : InRound(n) \/ FiveCard(n)

\* Five Card Draw with no seat leaving, every session scheduled and every
\* client sending frames
SpecLive ==
    InitFew /\ [][NextLive]_vars /\ \A n \in Names : WF_vars(Progress(n))

NextDraw == \E n \in Names : InRound(n) \/ FiveCard(n) \/ LongDraw(n)

\* Five Card Draw with index lists of any length in DrawCards
SpecDraw == InitFew /\ [][NextDraw]_vars

NextRoundEnd ==
    \E n \in Names :
        Common(n) \/ FiveCard(n) \/ Disconnect(n) \/ ShowdownTail(n) \/ UpdateDb(n)

\* Five Card Draw with the wait of SHOWDOWN's broadcast taken to end, which
\* is what lets the code behind it run: the end of the SHOWDOWN arm, the
\* UPDATE_DB arm and the loop the sessions are in when the lobby is
\* JOINABLE again
SpecRoundEnd == InitFew /\ [][NextRoundEnd]_vars

\* ------------------------------------------------------------- server lobby
LobbyNames == {"a", "b"}
GameTypes == {"FIVE_CARD_DRAW", "TEXAS_HOLD_EM"}
MaxLobbies == 2
OtherSeats == 4

\* the i32 behind a game state
Code(state) ==
    CASE state = "JOINABLE" -> 0
      [] state = "START_OF_ROUND" -> 1
      [] state = "FIRST_BETTING_ROUND" -> 4
      [] state = "GAME_LOBBY_FULL" -> 105

\* Lobby::new: the seats a lobby of the game type is made for
MaxPlayerCount(type) ==
    CASE type = "FIVE_CARD_DRAW" -> 5
      [] type = "SEVEN_CARD_STUD" -> 7
      [] type = "TEXAS_HOLD_EM" -> 10
      [] OTHER -> 5

\* Lobby::new, with held: a session of the lobby keeps the lobby's lock
NewLobby(type, name) ==
    [name |-> name, game_type |-> type, game_state |-> "JOINABLE",
     current_player_count |-> 0, max_player_count |-> MaxPlayerCount(type),
     players |-> << >>, held |-> FALSE]

\* Lobby::add_player
add_player(lb, name) ==
    [lb EXCEPT !.players = Append(@, [name |-> name]),
               !.current_player_count = @ + 1,
               !.game_state = IF lb.current_player_count + 1 = lb.max_player_count
                              THEN "GAME_LOBBY_FULL" ELSE "JOINABLE"]

\* the row add_lobby pushes for a lobby
Row(lb) ==
    [name |-> lb.name, status |-> lb.game_state, type |-> lb.game_type,
     count |-> lb.current_player_count, max |-> lb.max_player_count]

\* Lobby::lobby_exists
lobby_exists(name) ==
    \E j \in 1..Len(lobby_names_and_status) : lobby_names_and_status[j].name = name

First(S) == IF S = {} THEN 0 ELSE CHOOSE i \in S : \A j \in S : i <= j

\* the first listed lobby of that name whose lock try_lock gets
Unlocked(name) ==
    First({i \in 1..Len(lobbies) :
              ~heap[lobbies[i]].held /\ heap[lobbies[i]].name = name})

\* Lobby::update_lobby_names_status
update_lobby_names_status(name) ==
    LET j == First({k \in 1..Len(lobby_names_and_status) :
                       lobby_names_and_status[k].name = name})
        m == Unlocked(name)
    IN IF j = 0 \/ m = 0
       THEN lobby_names_and_status
       ELSE [lobby_names_and_status EXCEPT
                ![j].status = heap[lobbies[m]].game_state,
                ![j].count = heap[lobbies[m]].current_player_count]

\* the lobbies a session has created or is about to create
Created == Len(heap) + Cardinality({c \in Clients : session[c].at = "creating"})

\* CreateLobby, up to the answer of lobby_exists: the server lobby's lock is
\* released when the answer is there
CreateLobby(c) ==
    /\ session[c].at = "server"
    /\ server_guard = NoName
    /\ \E name \in LobbyNames, type \in GameTypes :
          IF lobby_exists(name)
          THEN session' = [session EXCEPT ![c].reply = "error"]
          ELSE /\ Created < MaxLobbies
               /\ session' = [session EXCEPT ![c].at = "creating",
                                             ![c].name = name, ![c].type = type]
    /\ UNCHANGED <<heap, lobbies, lobby_names_and_status, server_guard>>
    /\ UNCHANGED <<gamevars, purevars>>

\* CreateLobby, from Lobby::new on: the server lobby is locked again and
\* add_lobby pushes the lobby and its row
AddLobby(c) ==
    /\ session[c].at = "creating"
    /\ server_guard = NoName
    /\ LET lb == NewLobby(session[c].type, session[c].name)
       IN /\ heap' = Append(heap, lb)
          /\ lobbies' = Append(lobbies, Len(heap) + 1)
          /\ lobby_names_and_status' = Append(lobby_names_and_status, Row(lb))
    /\ session' = [session EXCEPT ![c] = [InServer EXCEPT !.reply = "created"]]
    /\ UNCHANGED server_guard
    /\ UNCHANGED <<gamevars, purevars>>

\* JoinLobby as a player, up to the return of player_join_lobby
JoinLobby(c) ==
    /\ session[c].at = "server"
    /\ server_guard = NoName
    /\ \E name \in LobbyNames :
          LET m == Unlocked(name)
              id == lobbies[m]
              ok == /\ m # 0
                    /\ ~(Code(heap[id].game_state) >= Code("START_OF_ROUND")
                         /\ Code(heap[id].game_state) <= 8)
          IN /\ heap' = IF ok THEN [heap EXCEPT ![id] = add_player(@, c)] ELSE heap
             /\ session' = [session EXCEPT
                    ![c].at = "joined", ![c].name = name,
                    ![c].lobby = IF ok THEN id ELSE 0,
                    ![c].result = IF ok THEN "SUCCESS" ELSE "FAILED"]
    /\ UNCHANGED <<lobbies, lobby_names_and_status, server_guard>>
    /\ UNCHANGED <<gamevars, purevars>>

\* JoinLobby, from update_lobby_names_status on
Joined(c) ==
    /\ session[c].at = "joined"
    /\ server_guard = NoName
    /\ lobby_names_and_status' = update_lobby_names_status(session[c].name)
    /\ session' = [session EXCEPT ![c] =
          IF session[c].result = "SUCCESS"
          THEN [@ EXCEPT !.at = "lobby", !.reply = "joined"]
          ELSE [InServer EXCEPT !.reply = "failed"]]
    /\ UNCHANGED <<heap, lobbies, server_guard>>
    /\ UNCHANGED <<gamevars, purevars>>

\* ShowLobbies
ShowLobbies(c) ==
    /\ session[c].at = "server"
    /\ server_guard = NoName
    /\ session[c].reply # "lobbies"
    /\ session' = [session EXCEPT ![c].reply = "lobbies"]
    /\ UNCHANGED <<heap, lobbies, lobby_names_and_status, server_guard>>
    /\ UNCHANGED <<gamevars, purevars>>

\* Quit in a lobby with no round on, up to the return of remove_player
Quit(c) ==
    /\ session[c].at = "lobby"
    /\ LET id == session[c].lobby
           r == remove_player(heap[id], heap[id].players, c)
       IN /\ ~heap[id].held
          /\ heap[id].game_state \in {"JOINABLE", "GAME_LOBBY_FULL"}
          /\ heap' = [heap EXCEPT ![id] = [r.lb EXCEPT !.players = r.ps]]
          /\ session' = [session EXCEPT ![c].at =
                IF r.lb.current_player_count = 0 THEN "emptied" ELSE "left"]
    /\ UNCHANGED <<lobbies, lobby_names_and_status, server_guard>>
    /\ UNCHANGED <<gamevars, purevars>>

\* Quit of a lobby that keeps seats: update_lobby_names_status
Leave(c) ==
    /\ session[c].at = "left"
    /\ server_guard = NoName
    /\ lobby_names_and_status' = update_lobby_names_status(session[c].name)
    /\ session' = [session EXCEPT ![c] = InServer]
    /\ UNCHANGED <<heap, lobbies, server_guard>>
    /\ UNCHANGED <<gamevars, purevars>>

\* Quit of the last seat: remove_lobby starts with the server lobby locked
remove_lobby(c) ==
    /\ session[c].at = "emptied"
    /\ server_guard = NoName
    /\ server_guard' = c
    /\ session' = [session EXCEPT ![c].at = "remove_lobby", ![c].i = 1]
    /\ UNCHANGED <<heap, lobbies, lobby_names_and_status>>
    /\ UNCHANGED <<gamevars, purevars>>

Without(s, i) == SubSeq(s, 1, i - 1) \o SubSeq(s, i + 1, Len(s))

\* the lobby remove_lobby waits to lock
Locking(c) ==
    IF session[c].at = "remove_lobby" /\ session[c].i <= Len(lobbies)
    THEN lobbies[session[c].i] ELSE 0

\* remove_lobby: one turn of its loop, which locks the lobby at i to read
\* its name, or its end
RemoveScan(c) ==
    /\ session[c].at = "remove_lobby"
    /\ IF Locking(c) = 0
       THEN /\ server_guard' = NoName
            /\ session' = [session EXCEPT ![c] = InServer]
            /\ UNCHANGED <<lobbies, lobby_names_and_status>>
       ELSE /\ ~heap[Locking(c)].held
            /\ IF heap[Locking(c)].name = session[c].name
               THEN /\ lobbies' = Without(lobbies, session[c].i)
                    /\ lobby_names_and_status' =
                          Without(lobby_names_and_status, session[c].i)
                    /\ UNCHANGED session
               ELSE /\ session' = [session EXCEPT ![c].i = @ + 1]
                    /\ UNCHANGED <<lobbies, lobby_names_and_status>>
            /\ UNCHANGED server_guard
    /\ UNCHANGED heap
    /\ UNCHANGED <<gamevars, purevars>>

\* every seat of the lobby is ready: the round starts
StartRound(id) ==
    /\ id <= Len(heap)
    /\ ~heap[id].held
    /\ heap[id].game_state \in {"JOINABLE", "GAME_LOBBY_FULL"}
    /\ heap[id].current_player_count >= 2
    /\ heap' = [heap EXCEPT ![id].game_state = "START_OF_ROUND"]
    /\ UNCHANGED <<lobbies, lobby_names_and_status, server_guard, session>>
    /\ UNCHANGED <<gamevars, purevars>>

\* the session of the seat on turn locks its lobby and waits for the bet of
\* its client
TurnWait(id) ==
    /\ id <= Len(heap)
    /\ ~heap[id].held
    /\ heap[id].game_state \in {"START_OF_ROUND", "FIRST_BETTING_ROUND"}
    /\ heap' = [heap EXCEPT ![id].game_state = "FIRST_BETTING_ROUND",
                            ![id].held = TRUE]
    /\ UNCHANGED <<lobbies, lobby_names_and_status, server_guard, session>>
    /\ UNCHANGED <<gamevars, purevars>>

\* the client of the seat on turn sends its bet: the lock is released, and
\* the round goes on or is over
TurnTakes(id) ==
    /\ id <= Len(heap)
    /\ heap[id].held
    /\ \E over \in BOOLEAN :
          heap' = [heap EXCEPT ![id].held = FALSE,
                               ![id].game_state = IF over THEN "JOINABLE" ELSE @]
    /\ UNCHANGED <<lobbies, lobby_names_and_status, server_guard, session>>
    /\ UNCHANGED <<gamevars, purevars>>

\* a lobby of Five Card Draw with OtherSeats seats taken by players whose
\* sessions wait for their clients
Seats4 ==
    [NewLobby("FIVE_CARD_DRAW", "a") EXCEPT
        !.players = [i \in 1..OtherSeats |-> [name |-> NumPlayers + i]],
        !.current_player_count = OtherSeats]

InitServer ==
    /\ InitGame("FIVE_CARD_DRAW", {AnteAmount})
    /\ NoCalls
    /\ \/ NoLobbies
       \/ /\ heap = <<Seats4>>
          /\ lobbies = <<1>>
          /\ lobby_names_and_status = <<Row(Seats4)>>
          /\ server_guard = NoName
          /\ session = [c \in Clients |-> InServer]

NextServer ==
    \/ \E c \in Clients :
          \/ CreateLobby(c) \/ AddLobby(c)
          \/ JoinLobby(c) \/ Joined(c)
          \/ ShowLobbies(c)
          \/ Quit(c) \/ Leave(c)
          \/ remove_lobby(c) \/ RemoveScan(c)
    \/ \E id \in 1..MaxLobbies : StartRound(id) \/ TurnWait(id) \/ TurnTakes(id)

\* the server lobby and the lobbies it lists, the rounds reduced to the
\* lock of the seat on turn
SpecServer == InitServer /\ [][NextServer]_vars

\* ------------------------------------------------------------- hand evaluator
\* the cards the hands are drawn from: 10 to Ace of Hearts, 2 to 5, King and
\* Ace of Diamonds, King and Ace of Spades, Ace of Clubs
SubDeck == {0, 9, 10, 11, 12, 13, 14, 15, 16, 17, 25, 26, 38, 39}

\* get_hand_type: the rank of a card, the Ace as 13, and its suit
Rank(card) == IF card % 13 # 0 THEN card % 13 ELSE 13
Suit(card) == card \div 13

\* Vec::sort
InsertLast(x, s) == s \o <<x>>

RECURSIVE Insert(_, _)
Insert(x, s) ==
    IF s = << >> THEN <<x>>
    ELSE IF x <= Head(s) THEN <<x>> \o s
    ELSE <<Head(s)>> \o Insert(x, Tail(s))

Unsorted(s) == s

RECURSIVE Sort(_)
Sort(s) == IF s = << >> THEN << >> ELSE Insert(Head(s), Sort(Tail(s)))

Max2(a, b) == IF a >= b THEN a ELSE b
Min2(a, b) == IF a <= b THEN a ELSE b

\* get_hand_type: its locals flush and straight
flush(h) == \A i \in 1..Len(h) : Suit(h[i]) = Suit(h[1])
straight_wheel(r) ==
    \/ \A i \in 1..(Len(r) - 1) : r[i + 1] = r[i] + 1
    \/ r = <<1, 2, 3, 4, 13>>
straight(r) == \A i \in 1..(Len(r) - 1) : r[i + 1] = r[i] + 1

\* get_hand_type, the sorted ranks r[1..5] for the source's ranks[0..4]
get_hand_type(h) ==
    LET r == Sort([i \in 1..Len(h) |-> Rank(h[i])])
    IN IF flush(h) /\ straight(r) THEN <<8, r[5], r[5], 0, 0, 0>>
       ELSE IF r[1] = r[2] /\ r[1] = r[3] /\ r[1] = r[4] THEN <<7, r[1], r[5], 0, 0, 0>>
       ELSE IF r[2] = r[3] /\ r[2] = r[4] /\ r[2] = r[5] THEN <<7, r[2], r[1], 0, 0, 0>>
       ELSE IF \/ r[1] = r[2] /\ r[3] = r[4] /\ r[3] = r[5]
               \/ r[1] = r[2] /\ r[2] = r[3] /\ r[4] = r[5]
            THEN <<6, r[3], r[1], 0, 0, 0>>
       ELSE IF flush(h) THEN <<5, r[5], r[4], r[3], r[2], r[1]>>
       ELSE IF straight(r) THEN <<4, r[5], 0, 0, 0, 0>>
       ELSE IF r[1] = r[2] /\ r[1] = r[3] THEN <<3, r[1], r[5], r[4], 0, 0>>
       ELSE IF r[2] = r[3] /\ r[2] = r[4] THEN <<3, r[2], r[5], r[1], 0, 0>>
       ELSE IF r[3] = r[4] /\ r[3] = r[5] THEN <<3, r[3], r[2], r[1], 0, 0>>
       ELSE IF r[1] = r[2] /\ r[3] = r[4]
            THEN <<2, Max2(r[1], r[3]), Min2(r[1], r[3]), r[5], 0, 0>>
       ELSE IF r[1] = r[2] /\ r[4] = r[5]
            THEN <<2, Max2(r[1], r[4]), Min2(r[1], r[4]), r[3], 0, 0>>
       ELSE IF r[2] = r[3] /\ r[4] = r[5]
            THEN <<2, Max2(r[2], r[4]), Min2(r[2], r[4]), r[1], 0, 0>>
       ELSE IF r[1] = r[2] THEN <<1, r[1], r[5], r[4], r[3], 0>>
       ELSE IF r[2] = r[3] THEN <<1, r[2], r[5], r[4], r[1], 0>>
       ELSE IF r[3] = r[4] THEN <<1, r[3], r[5], r[2], r[1], 0>>
       ELSE IF r[4] = r[5] THEN <<1, r[4], r[3], r[2], r[1], 0>>
       ELSE <<0, r[5], r[4], r[3], r[2], r[1]>>

\* hands of five cards of the sub-deck, in every order
Hands5 ==
    {h \in [1..HandSize -> SubDeck] : \A i, j \in 1..HandSize : h[i] = h[j] => i = j}

InitHand ==
    /\ InitGame("FIVE_CARD_DRAW", {AnteAmount})
    /\ NoLobbies
    /\ hand \in Hands5
    /\ score = NoScore
    /\ deck = [cards |-> << >>, next_card_index |-> 0]
    /\ dealt = << >>
    /\ table = << >>
    /\ spectators = << >>
    /\ tx = << >>
    /\ task = << >>

\* get_hand_type is called with the hand
Evaluate ==
    /\ score = NoScore
    /\ score' = get_hand_type(hand)
    /\ UNCHANGED <<hand, deck, dealt, table, spectators, tx, task>>
    /\ UNCHANGED <<gamevars, regvars>>

\* the hand with the cards at i and i + 1 in each other's place
Swapped(h, i) ==
    [k \in 1..Len(h) |-> IF k = i THEN h[i + 1] ELSE IF k = i + 1 THEN h[i] ELSE h[k]]

\* get_hand_type is called with the same cards in another order
Reorder ==
    /\ score # NoScore
    /\ \E i \in 1..(HandSize - 1) :
          /\ hand' = Swapped(hand, i)
          /\ score' = get_hand_type(hand')
    /\ UNCHANGED <<deck, dealt, table, spectators, tx, task>>
    /\ UNCHANGED <<gamevars, regvars>>

NextHand == Evaluate \/ Reorder

\* get_hand_type on the hands of five cards of the sub-deck
SpecHand == InitHand /\ [][NextHand]_vars

\* get_best_hand: the tuple comparison current_hand_type > best_hand
RECURSIVE Greater(_, _)
Greater(a, b) ==
    IF a = << >> \/ b = << >> THEN FALSE
    ELSE IF Head(a) # Head(b) THEN Head(a) > Head(b)
    ELSE Greater(Tail(a), Tail(b))

\* get_best_hand: the index tuples its five nested loops go through
FewCombos ==
    {c \in (0..1) \X (1..3) \X (2..4) \X (3..5) \X (4..6) :
        c[1] < c[2] /\ c[2] < c[3] /\ c[3] < c[4] /\ c[4] < c[5]}
Combos ==
    {c \in (0..2) \X (1..3) \X (2..4) \X (3..5) \X (4..6) :
        c[1] < c[2] /\ c[2] < c[3] /\ c[3] < c[4] /\ c[4] < c[5]}

\* get_best_hand: best_hand after the loops, which started at (-1, ..., -1)
get_best_hand(h) ==
    LET types == {get_hand_type([k \in 1..HandSize |-> h[c[k] + 1]]) : c \in Combos}
                    \cup {<<-1, -1, -1, -1, -1, -1>>}
    IN CHOOSE best \in types : \A t \in types : ~Greater(t, best)

\* the cards the hands of seven are made of: the four Aces, three Kings,
\* 9 to Queen of Hearts and the 2 of Diamonds
BestDeck == {0, 8, 9, 10, 11, 12, 13, 14, 25, 26, 38, 39}

\* the cards of S in the order of the card numbers
Ordered(S) ==
    [k \in 1..Cardinality(S) |->
        CHOOSE x \in S : Cardinality({y \in S : y < x}) = k - 1]

\* hands of seven cards, in the order of the card numbers
Hands7 ==
    {Ordered(S) : S \in {Q \in SUBSET BestDeck : Cardinality(Q) = 7}}

InitBest ==
    /\ InitGame("TEXAS_HOLD_EM", {AnteAmount})
    /\ NoLobbies
    /\ hand \in Hands7
    /\ score = NoScore
    /\ deck = [cards |-> << >>, next_card_index |-> 0]
    /\ dealt = << >>
    /\ table = << >>
    /\ spectators = << >>
    /\ tx = << >>
    /\ task = << >>

\* get_best_hand is called with the hand
Best ==
    /\ score = NoScore
    /\ score' = get_best_hand(hand)
    /\ UNCHANGED <<hand, deck, dealt, table, spectators, tx, task>>
    /\ UNCHANGED <<gamevars, regvars>>

\* get_best_hand is called with the same cards turned round, or with the
\* first card put last
Rearrange ==
    /\ score # NoScore
    /\ \/ hand' = [k \in 1..Len(hand) |-> hand[Len(hand) + 1 - k]]
       \/ hand' = Tail(hand) \o <<Head(hand)>>
    /\ score' = get_best_hand(hand')
    /\ UNCHANGED <<deck, dealt, table, spectators, tx, task>>
    /\ UNCHANGED <<gamevars, regvars>>

NextBest == Best \/ Rearrange

\* get_best_hand on the hands of seven cards
SpecBest == InitBest /\ [][NextBest]_vars

\* ------------------------------------------------------------------- deck
\* Deck::new
Deck_new == [cards |-> [i \in 1..DeckSize |-> i - 1], next_card_index |-> 0]

\* the orders a shuffle leaves the cards in: rand's shuffle may give any
\* order, of which the model takes the cards turned round and the cards cut
\* after the first one
Shuffles(c) ==
    {[i \in 1..Len(c) |-> c[Len(c) + 1 - i]], Tail(c) \o <<Head(c)>>}

\* Deck::shuffle, which came to the order c
Deck_shuffle(d, c) == [cards |-> c, next_card_index |-> 0]

Deck_deal_again(d) ==
    [deck |-> d, card |-> d.cards[d.next_card_index + 1]]

\* Deck::deal: the card returned and the deck left
Deck_deal(d) ==
    [deck |-> [d EXCEPT !.next_card_index = d.next_card_index + 1],
     card |-> d.cards[d.next_card_index + 1]]

InitDeck ==
    /\ InitGame("FIVE_CARD_DRAW", {AnteAmount})
    /\ NoLobbies
    /\ hand = << >>
    /\ score = NoScore
    /\ deck = Deck_new
    /\ dealt = << >>
    /\ table = << >>
    /\ spectators = << >>
    /\ tx = << >>
    /\ task = << >>

New ==
    /\ deck' = Deck_new
    /\ dealt' = << >>
    /\ UNCHANGED <<hand, score, table, spectators, tx, task>>
    /\ UNCHANGED <<gamevars, regvars>>

Shuffle ==
    /\ \E c \in Shuffles(deck.cards) : deck' = Deck_shuffle(deck, c)
    /\ dealt' = << >>
    /\ UNCHANGED <<hand, score, table, spectators, tx, task>>
    /\ UNCHANGED <<gamevars, regvars>>

\* a deal past the last card panics on the index and is left to the caller
Deal ==
    /\ deck.next_card_index < Len(deck.cards)
    /\ deck' = Deck_deal(deck).deck
    /\ dealt' = dealt \o <<Deck_deal(deck).card>>
    /\ UNCHANGED <<hand, score, table, spectators, tx, task>>
    /\ UNCHANGED <<gamevars, regvars>>

NextDeck == New \/ Shuffle \/ Deal

\* a deck that is made, shuffled and dealt from
SpecDeck == InitDeck /\ [][NextDeck]_vars

\* --------------------------------------------------------------- bring-in
BringInAmount == 15

\* face-up cards of the first deal: Ace, 2 and 3 of Hearts, 2 of Diamonds,
\* 2 of Spades, King of Spades, 2 of Clubs
UpCards == {0, 1, 2, 14, 27, 38, 40}

\* deal_cards_7, round 1: two cards face down (card + 53), the third face up
StudHand(n, up) == <<53 + 50 - 2 * n, 53 + 51 - 2 * n, up>>

\* bring_in: the index (from 0) of the seat its loop ends with, the first of
\* those that are not FOLDED and show the lowest card % 13
lowest_up_card_first(ps) ==
    LET live == {i \in 1..Len(ps) : ps[i].state # "FOLDED"}
        low == {i \in live : \A j \in live : ps[i].hand[3] % 13 <= ps[j].hand[3] % 13}
    IN IF low = {} THEN 0 ELSE (CHOOSE i \in low : \A j \in low : i <= j) - 1

\* bring_in: the seat charged, the pot and the state CALLED
bring_in(lb, ps) ==
    LET i == lowest_up_card_first(ps) + 1
    IN [lobby |-> [lb EXCEPT !.pot = lb.pot + BringInAmount],
        players |-> [ps EXCEPT ![i].wallet = ps[i].wallet - BringInAmount,
                               ![i].current_bet = ps[i].current_bet + BringInAmount,
                               ![i].state = "CALLED"]]

\* a Seven Card Stud round after the first deal, two seats or more in play
InitStud ==
    /\ lobby = [Seated(InitLobby("SEVEN_CARD_STUD")) EXCEPT !.game_state = "BRING_IN"]
    /\ store = [n \in Names |-> [wallet |-> BringInAmount + AnteAmount,
                                  games_played |-> 0, games_won |-> 0]]
    /\ \E up \in [1..NumPlayers -> UpCards], st \in [1..NumPlayers -> {"ANTED", "FOLDED"}] :
          /\ \A i, j \in 1..NumPlayers : up[i] = up[j] => i = j
          /\ Cardinality({i \in 1..NumPlayers : st[i] # "FOLDED"}) >= 2
          /\ players = [i \in 1..NumPlayers |->
                [NewPlayer(i, store[i].wallet) EXCEPT
                    !.state = st[i], !.hand = StudHand(i, up[i])]]
    /\ player = [n \in Names |-> players[n]]
    /\ pc = [n \in Names |-> "top"]
    /\ rx = [n \in Names |-> 0]
    /\ guard = NoName
    /\ deal_card_counter = [n \in Names |-> 1]
    /\ paid = [n \in Names |-> 0]
    /\ acted = {}
    /\ snap = NoSnap
    /\ last = NoFrame
    /\ NoLobbies
    /\ NoCalls

\* bring_in is called once, after the first deal
BringIn ==
    /\ lobby.pot = 0
    /\ lobby' = bring_in(lobby, players).lobby
    /\ players' = bring_in(lobby, players).players
    /\ UNCHANGED <<player, pc, rx, guard, store, deal_card_counter, paid, acted, snap, last>>
    /\ UNCHANGED <<regvars, purevars>>

NextStud == BringIn

\* the bring-in of Seven Card Stud
SpecStud == InitStud /\ [][NextStud]_vars

\* ------------------------------------------------------------------ seats
\* names handed to add_player and remove_player
SeatNames == 1..5
\* removals of a name that is not seated, at most
MaxMissed == 2

\* one lobby of Five Card Draw, no seat taken
InitSeats ==
    /\ InitGame("FIVE_CARD_DRAW", {AnteAmount})
    /\ NoCalls
    /\ heap = <<NewLobby("FIVE_CARD_DRAW", "a")>>
    /\ lobbies = <<1>>
    /\ lobby_names_and_status = <<Row(NewLobby("FIVE_CARD_DRAW", "a"))>>
    /\ server_guard = NoName
    /\ session = [c \in Clients |-> InServer]

Seated1(name) == \E i \in 1..Len(heap[1].players) : heap[1].players[i].name = name

\* Lobby::add_player is called for a player that has no seat in the lobby
AddPlayer ==
    /\ \E name \in SeatNames :
          /\ ~Seated1(name)
          /\ Len(heap[1].players) < heap[1].max_player_count
          /\ heap' = [heap EXCEPT ![1] = add_player(@, name)]
    /\ UNCHANGED <<lobbies, lobby_names_and_status, server_guard, session>>
    /\ UNCHANGED <<gamevars, purevars>>

\* Lobby::remove_player is called with any name, seated or not
RemovePlayer ==
    /\ \E name \in SeatNames :
          LET r == remove_player(heap[1], heap[1].players, name)
          IN /\ Seated1(name) \/ Len(heap[1].players) - heap[1].current_player_count < MaxMissed
             /\ heap' = [heap EXCEPT ![1] = [r.lb EXCEPT !.players = r.ps]]
    /\ UNCHANGED <<lobbies, lobby_names_and_status, server_guard, session>>
    /\ UNCHANGED <<gamevars, purevars>>

NextSeats == AddPlayer \/ RemovePlayer

\* a lobby whose seats are taken and given up
SpecSeats == InitSeats /\ [][NextSeats]_vars

\* ------------------------------------------------------------- spectators
\* names that join the lobby to watch
Watchers == 6..7
\* frames sent down one connection, at most
MaxFrames == 3

\* the frames of Lobby::broadcast: a plain message, the hands shown at the
\* showdown, the notice that the game has ended
BroadcastFrames == {"message", "showdownHands", "gameEnd"}

\* Lobby::broadcast: the frame to every seated player, then to every
\* spectator
broadcast(ps, sp, t, f) ==
    LET seats == {ps[i].name : i \in 1..Len(ps)}
        watch == {sp[j] : j \in 1..Len(sp)}
    IN [n \in DOMAIN t |-> IF n \in seats \cup watch THEN Append(t[n], f) ELSE t[n]]

\* the loop that ends send_lobby_info, send_lobby_game_info and
\* send_player_list: the frame to the tx of every entry of players
to_players(ps, t, f) ==
    LET seats == {ps[i].name : i \in 1..Len(ps)}
    IN [n \in DOMAIN t |-> IF n \in seats THEN Append(t[n], f) ELSE t[n]]

\* Lobby::send_lobby_info
send_lobby_info(ps, t) == to_players(ps, t, "lobbyInfo")

\* Lobby::send_lobby_game_info
send_lobby_game_info(ps, t) == to_players(ps, t, "gameInfo")

\* Lobby::send_player_list
send_player_list(ps, t) == to_players(ps, t, "players")

\* one lobby of Five Card Draw with two seats taken and nobody watching
InitWatch ==
    /\ InitGame("FIVE_CARD_DRAW", {AnteAmount})
    /\ hand = << >>
    /\ score = NoScore
    /\ deck = [cards |-> << >>, next_card_index |-> 0]
    /\ dealt = << >>
    /\ table = << >>
    /\ spectators = << >>
    /\ tx = [n \in SeatNames \cup Watchers |-> << >>]
    /\ task = << >>
    /\ heap = <<add_player(add_player(NewLobby("FIVE_CARD_DRAW", "a"), 1), 2)>>
    /\ lobbies = <<1>>
    /\ lobby_names_and_status = <<Row(heap[1])>>
    /\ server_guard = NoName
    /\ session = [c \in Clients |-> InServer]

Room == \A n \in DOMAIN tx : Len(tx[n]) < MaxFrames

\* Lobby::add_spectator: the player is pushed to spectators and the lobby
\* broadcasts that it joined
AddSpectator ==
    /\ Room
    /\ \E w \in Watchers :
          /\ \A j \in 1..Len(spectators) : spectators[j] # w
          /\ spectators' = Append(spectators, w)
          /\ tx' = broadcast(heap[1].players, spectators', tx, "message")
    /\ UNCHANGED <<hand, score, deck, dealt, table, task>>
    /\ UNCHANGED <<gamevars, regvars>>

\* a call of Lobby::broadcast by a session of the lobby
Broadcast ==
    /\ Room
    /\ \E f \in BroadcastFrames : tx' = broadcast(heap[1].players, spectators, tx, f)
    /\ UNCHANGED <<hand, score, deck, dealt, table, spectators, task>>
    /\ UNCHANGED <<gamevars, regvars>>

\* a call of Lobby::send_lobby_info
SendLobbyInfo ==
    /\ Room
    /\ tx' = send_lobby_info(heap[1].players, tx)
    /\ UNCHANGED <<hand, score, deck, dealt, table, spectators, task>>
    /\ UNCHANGED <<gamevars, regvars>>

\* a call of Lobby::send_lobby_game_info
SendLobbyGameInfo ==
    /\ Room
    /\ tx' = send_lobby_game_info(heap[1].players, tx)
    /\ UNCHANGED <<hand, score, deck, dealt, table, spectators, task>>
    /\ UNCHANGED <<gamevars, regvars>>

\* a call of Lobby::send_player_list
SendPlayerList ==
    /\ Room
    /\ tx' = send_player_list(heap[1].players, tx)
    /\ UNCHANGED <<hand, score, deck, dealt, table, spectators, task>>
    /\ UNCHANGED <<gamevars, regvars>>

NextWatch ==
    AddSpectator \/ Broadcast \/ SendLobbyInfo \/ SendLobbyGameInfo \/ SendPlayerList

\* a lobby that sends frames while spectators join
SpecWatch == InitWatch /\ [][NextWatch]_vars

\* ------------------------------------------------------------------ locks
\* The locks: "R" is the mutex of the server lobby (the registry), "L1" and
\* "L2" are the mutexes of two game lobbies of its list, in that order,
\* "new" is the mutex of a lobby being created, and "lobbies", "names" and
\* "players" are the server lobby's inner mutexes of its lobby list, its
\* lobby_names_and_status and its players.
GameLocks == {"L1", "L2"}
InnerLocks == {"lobbies", "names", "players"}

\* lock().await, the drop of a guard, and try_lock(), which on failure
\* skips the instructions that use the guard; skip is the number of
\* instructions left out after the instruction
Lock(l) == [op |-> "lock", l |-> l, skip |-> 0]
Unlock(l) == [op |-> "unlock", l |-> l, skip |-> 0]
UnlockSkip(l, n) == [op |-> "unlock", l |-> l, skip |-> n]
Try(l, n) == [op |-> "try", l |-> l, skip |-> n]

\* the loop over the lobby list that stops at the lobby named k: every
\* lobby before it is tried and let go, and so is the rest of the list when
\* the try of k fails
ScanFor(k) ==
    IF k = "L1"
    THEN << Try("L1", 1), UnlockSkip("L1", 2), Try("L2", 1), Unlock("L2") >>
    ELSE << Try("L1", 1), Unlock("L1"), Try("L2", 1), Unlock("L2") >>

\* Lobby::broadcast_lobbies(None)
Locks_broadcast_lobbies ==
    << Lock("names"), Unlock("names"), Lock("players"), Unlock("players") >>

\* Lobby::update_lobby_names_status
Locks_update_lobby_names_status(k) ==
    << Lock("names"), Lock("lobbies") >> \o ScanFor(k)
       \o << Unlock("lobbies"), Unlock("names"), Lock("names"), Unlock("names") >>
       \o Locks_broadcast_lobbies

\* Lobby::add_lobby
Locks_add_lobby ==
    << Lock("lobbies"), Lock("new"), Lock("names"), Unlock("names"), Unlock("new") >>
       \o Locks_broadcast_lobbies \o << Unlock("lobbies") >>

\* Lobby::remove_lobby of the lobby k
Locks_remove_lobby(k) ==
    << Lock("lobbies"), Lock("L1"), Unlock("L1") >>
       \o (IF k = "L1" THEN << Lock("names"), Unlock("names") >> ELSE << >>)
       \o << Lock("L2"), Unlock("L2") >>
       \o (IF k = "L2" THEN << Lock("names"), Unlock("names") >> ELSE << >>)
       \o Locks_broadcast_lobbies \o << Unlock("lobbies") >>

\* a call through server_lobby.lock().await
WithRegistry(body) == << Lock("R") >> \o body \o << Unlock("R") >>

\* Lobby::broadcast_player_count
Locks_broadcast_player_count == << Lock("players"), Unlock("players") >>

\* Player::player_join_lobby
Locks_player_join_lobby(k) ==
    << Lock("R"), Lock("lobbies"), Unlock("lobbies"), Unlock("R") >> \o ScanFor(k)

\* the server loop handles CreateLobby with a name that is free
Locks_CreateLobby ==
    WithRegistry(<< Lock("names"), Unlock("names") >>) \o WithRegistry(Locks_add_lobby)

\* the server loop handles JoinLobby
Locks_JoinLobby(k) ==
    Locks_player_join_lobby(k) \o WithRegistry(Locks_update_lobby_names_status(k))

\* Quit with the guard of the lobby kept until the handler ends
Locks_QuitHolding(k, empty) ==
    << Lock(k) >>
       \o WithRegistry(IF empty THEN Locks_remove_lobby(k)
                       ELSE Locks_update_lobby_names_status(k))
       \o WithRegistry(Locks_broadcast_player_count)
       \o << Unlock(k) >>

\* the lobby loop of a session of lobby k handles Quit; empty: the lobby
\* has no seat left
Locks_Quit(k, empty) ==
    << Lock(k), Unlock(k) >>
       \o WithRegistry(IF empty THEN Locks_remove_lobby(k)
                       ELSE Locks_update_lobby_names_status(k))
       \o WithRegistry(Locks_broadcast_player_count)
       \o << Lock(k), Unlock(k), Lock(k), Unlock(k) >>

\* a pass of the in-game loop of a session of lobby k
Locks_Turn(k) == << Try(k, 1), Unlock(k) >>

Handlers ==
    {Locks_CreateLobby}
       \cup {Locks_JoinLobby(k) : k \in GameLocks}
       \cup {Locks_Quit(k, e) : k \in GameLocks, e \in BOOLEAN}
       \cup {Locks_Turn(k) : k \in GameLocks}

Idle == [prog |-> << >>, ip |-> 1, holds |-> {}]

\* the sessions between two frames, no lock taken
InitLocks ==
    /\ InitGame("FIVE_CARD_DRAW", {AnteAmount})
    /\ NoLobbies
    /\ hand = << >>
    /\ score = NoScore
    /\ deck = [cards |-> << >>, next_card_index |-> 0]
    /\ dealt = << >>
    /\ table = << >>
    /\ spectators = << >>
    /\ tx = << >>
    /\ task = [c \in Clients |-> Idle]

Running(c) == task[c].ip <= Len(task[c].prog)
Instr(c) == task[c].prog[task[c].ip]
Free(l) == \A d \in Clients : l \notin task[d].holds

\* the session of c reads a frame and enters its handler
Begin(c) ==
    /\ ~Running(c)
    /\ \E h \in Handlers : task' = [task EXCEPT ![c] = [prog |-> h, ip |-> 1, holds |-> {}]]
    /\ UNCHANGED <<hand, score, deck, dealt, table, spectators, tx>>
    /\ UNCHANGED <<gamevars, regvars>>

\* lock().await returns: no task holds the mutex
Acquire(c) ==
    /\ Running(c)
    /\ Instr(c).op = "lock"
    /\ Free(Instr(c).l)
    /\ task' = [task EXCEPT ![c].ip = @ + 1, ![c].holds = @ \cup {Instr(c).l}]
    /\ UNCHANGED <<hand, score, deck, dealt, table, spectators, tx>>
    /\ UNCHANGED <<gamevars, regvars>>

\* try_lock(): the guard, or Err at once
TryLock(c) ==
    /\ Running(c)
    /\ Instr(c).op = "try"
    /\ task' = IF Free(Instr(c).l)
               THEN [task EXCEPT ![c].ip = @ + 1, ![c].holds = @ \cup {Instr(c).l}]
               ELSE [task EXCEPT ![c].ip = @ + 1 + Instr(c).skip]
    /\ UNCHANGED <<hand, score, deck, dealt, table, spectators, tx>>
    /\ UNCHANGED <<gamevars, regvars>>

\* a guard is dropped
Release(c) ==
    /\ Running(c)
    /\ Instr(c).op = "unlock"
    /\ task' = [task EXCEPT ![c].ip = @ + 1 + Instr(c).skip,
                            ![c].holds = @ \ {Instr(c).l}]
    /\ UNCHANGED <<hand, score, deck, dealt, table, spectators, tx>>
    /\ UNCHANGED <<gamevars, regvars>>

NextLocks == \E c \in Clients : Begin(c) \/ Acquire(c) \/ TryLock(c) \/ Release(c)

\* the sessions of the server taking and dropping its locks
SpecLocks == InitLocks /\ [][NextLocks]_vars

\* --------------------------------------------------------------- accounts
InitialWallet == 1000

\* user names clients register with
UserNames == {"ann", "bob", "cy", "dee", "eve"}

\* an INSERT into a table that takes any name
insert_any(t, name) ==
    [ok |-> TRUE,
     table |-> Append(t, [name |-> name, wallet |-> InitialWallet,
                          games_played |-> 0, games_won |-> 0])]

\* the INSERT of register_player into a table whose name column is UNIQUE:
\* it fails on a name the table holds, and the columns it does not bind
\* take their defaults
register_player(t, name) ==
    IF \E i \in 1..Len(t) : t[i].name = name
    THEN [ok |-> FALSE, table |-> t]
    ELSE [ok |-> TRUE,
          table |-> Append(t, [name |-> name, wallet |-> InitialWallet,
                               games_played |-> 0, games_won |-> 0])]

\* the sessions in their login loop, the table empty
InitAccounts ==
    /\ InitGame("FIVE_CARD_DRAW", {AnteAmount})
    /\ hand = << >>
    /\ score = NoScore
    /\ deck = [cards |-> << >>, next_card_index |-> 0]
    /\ dealt = << >>
    /\ table = << >>
    /\ spectators = << >>
    /\ tx = << >>
    /\ task = << >>
    /\ heap = << >>
    /\ lobbies = << >>
    /\ lobby_names_and_status = << >>
    /\ server_guard = NoName
    /\ session = [c \in Clients |-> [InServer EXCEPT !.at = "login"]]

\* the login loop handles a Register frame
Register(c) ==
    /\ session[c].at = "login"
    /\ \E name \in UserNames :
          LET r == register_player(table, name)
          IN /\ table' = r.table
             /\ session' = [session EXCEPT
                    ![c].name = name,
                    ![c].at = IF r.ok THEN "server" ELSE "login",
                    ![c].reply = IF r.ok THEN "Registration successful"
                                 ELSE "Registration failed"]
    /\ UNCHANGED <<heap, lobbies, lobby_names_and_status, server_guard>>
    /\ UNCHANGED <<hand, score, deck, dealt, spectators, tx, task>>
    /\ UNCHANGED gamevars

\* the connection of a registered client ends and the client connects again
Connect(c) ==
    /\ session[c].at = "server"
    /\ session' = [session EXCEPT ![c] = [InServer EXCEPT !.at = "login"]]
    /\ UNCHANGED <<heap, lobbies, lobby_names_and_status, server_guard>>
    /\ UNCHANGED purevars
    /\ UNCHANGED gamevars

NextAccounts == \E c \in Clients : Register(c) \/ Connect(c)

\* clients that register
SpecAccounts == InitAccounts /\ [][NextAccounts]_vars

\* ------------------------------------------------------------- properties
\* the step on which the session of n handles a play frame
Handles(n) == last' # last /\ last'.name = n

\* C1: in a betting round a valid Raise, or an AllIn that lifts
\* current_max_bet, leaves turns_remaining at current_player_count - 1 when
\* the raiser's turn is over, in the same phase; an AllIn that does not lift
\* current_max_bet takes one turn off the counter (which starts again at
\* current_player_count when that was the last turn of the phase).  And a
\* phase that two or more seats are still in closes only when every seat
\* that is neither FOLDED nor ALL_IN has acted since the last raise.
C1_RaiseResetsTurns ==
    [][/\ \A n \in Names :
            (Handles(n) /\ last'.valid /\ last'.action \in {"Raise", "AllIn"}) =>
                IF \/ last'.action = "Raise"
                   \/ player[n].current_bet + player[n].wallet > lobby.current_max_bet
                THEN /\ lobby'.turns_remaining = lobby'.current_player_count - 1
                     /\ lobby'.game_state = lobby.game_state
                ELSE lobby'.turns_remaining =
                         IF lobby.turns_remaining = 1 THEN lobby'.current_player_count
                         ELSE lobby.turns_remaining - 1
       /\ (snap' # snap /\ snap'.phase # "none" /\ ~check_end_game(players')) =>
              \A i \in 1..Len(players') :
                  players'[i].state \notin {"FOLDED", "ALL_IN"} =>
                      players'[i].name \in acted \cup {lobby.current_player_turn}]_vars

\* two seats have checked and the third has raised: both owe another action
C1_Witness ==
    /\ lobby.game_state = "FIRST_BETTING_ROUND"
    /\ last.valid /\ last.action = "Raise"
    /\ lobby.turns_remaining = lobby.current_player_count - 1
    /\ \A i \in 1..Len(players) :
          players[i].name # last.name => players[i].state = "CHECKED"

\* seats that are neither FOLDED nor ALL_IN and have not acted since the
\* phase began or the bet was last raised
Owing ==
    {i \in 1..Len(players) :
        /\ players[i].state \notin {"FOLDED", "ALL_IN"}
        /\ players[i].name \notin acted}

\* C2: in every state of a betting phase turns_remaining is the number of
\* seats, neither FOLDED nor ALL_IN, that still owe an action in the phase.
C2_TurnsRemainingCountsOwing ==
    lobby.game_state \in BettingStates =>
        lobby.turns_remaining = Cardinality(Owing)

\* a seat folded at the ante and the first betting round opens with a turn
\* counted for it
C2_Witness ==
    /\ lobby.game_state = "FIRST_BETTING_ROUND"
    /\ acted = {}
    /\ \E i \in 1..Len(players) : players[i].state = "FOLDED"
    /\ Cardinality(Owing) >= 2
    /\ lobby.turns_remaining > Cardinality(Owing)

Illegal(n, f) ==
    LET call_amount == lobby.current_max_bet - player[n].current_bet
    IN CASE f.action = "Check" ->
              lobby.current_max_bet # 0 \/ player[n].current_bet # 0
         [] f.action = "Call" -> player[n].wallet < call_amount
         [] f.action = "Raise" -> ~(call_amount < f.arg /\ f.arg <= player[n].wallet)
         [] OTHER -> FALSE

\* C4: an illegal play action is rejected, and a rejected action changes
\* nothing: the lobby (pot, current_max_bet, turns_remaining, game_state,
\* the seat on turn), every lobby copy and clone of a player, and the same
\* session keeps waiting for a frame of the same seat.
C4_IllegalRejected ==
    [][\A n \in Names :
          (Handles(n) /\ pc[n] = "betting") =>
              /\ Illegal(n, last') => ~last'.valid
              /\ ~last'.valid =>
                    /\ UNCHANGED <<lobby, players, player, store, guard>>
                    /\ pc'[n] = "betting"
                    /\ lobby'.current_player_turn = n]_vars

\* a Check against a bet that is not zero was rejected and the seat is asked again
C4_Witness ==
    /\ last.name # NoName /\ ~last.valid /\ last.action = "Check"
    /\ lobby.current_max_bet # 0
    /\ pc[last.name] = "betting"
    /\ lobby.current_player_turn = last.name

\* C5: a play frame sent by a seat that is not on turn is discarded: it
\* changes neither the lobby nor any player, neither when it arrives nor
\* when the seat comes on turn.
C5_OffTurnFramesDiscarded ==
    [][\A n \in Names :
          (Handles(n) /\ last'.offturn) =>
              UNCHANGED <<lobby, players, player>>]_vars

\* a frame sent ahead of the turn was handled as the seat's action
C5_Witness == last.offturn /\ last.valid

RECURSIVE SumPaid(_)
SumPaid(S) ==
    IF S = {} THEN 0
    ELSE LET n == CHOOSE m \in S : TRUE IN paid[n] + SumPaid(S \ {n})

RoundStates ==
    {"START_OF_ROUND", "ANTE", "SMALL_AND_BIG_BLIND", "DEAL_CARDS",
     "FIRST_BETTING_ROUND", "DRAW", "SECOND_BETTING_ROUND", "BETTING_ROUND",
     "SHOWDOWN"}

\* C6: in every state of a round up to the showdown the pot is the sum of
\* the chips the seats were charged, and the wallet of every seat, in the
\* lobby's copy and in the clone of its session, is what the store held for
\* it less what the seat was charged.
C6_PotIsWhatSeatsPaid ==
    lobby.game_state \in RoundStates =>
        /\ lobby.pot = SumPaid(Names)
        /\ \A i \in 1..Len(players) :
              LET n == players[i].name
              IN /\ players[i].wallet = store[n].wallet - paid[n]
                 /\ player[n].wallet = store[n].wallet - paid[n]

\* the seat of the small blind has called: it was charged the blind and
\* the whole of the big blind, and its wallet shows the call alone
C6_Witness ==
    /\ lobby.game_state = "BETTING_ROUND"
    /\ last.valid /\ last.action = "Call"
    /\ paid[last.name] = SmallBlind + BigBlind
    /\ \E i \in 1..Len(players) :
          /\ players[i].name = last.name
          /\ players[i].wallet = store[last.name].wallet - BigBlind

\* C7: the pot, every wallet and every current_bet are never negative.
C7_NonNegative ==
    /\ lobby.pot >= 0
    /\ \A i \in 1..Len(players) :
          players[i].wallet >= 0 /\ players[i].current_bet >= 0
    /\ \A n \in Names : player[n].wallet >= 0 /\ player[n].current_bet >= 0

\* a forced bet was charged to a seat whose wallet is smaller than the bet
C7_Witness ==
    \E i \in 1..Len(players) :
        /\ paid[players[i].name] > store[players[i].name].wallet
        /\ players[i].current_bet > 0

\* C8: Raise{amount} is accepted exactly when
\* current_max_bet - current_bet < amount <= wallet; an accepted Raise
\* takes amount off the wallet, adds it to current_bet and to the pot,
\* makes current_max_bet the new current_bet, and leaves the seat RAISED,
\* or ALL_IN with an empty wallet.
C8_Raise ==
    [][\A n \in Names :
          (Handles(n) /\ pc[n] = "betting" /\ last'.action = "Raise") =>
              LET p == player[n]
                  q == player'[n]
                  amount == last'.arg
              IN /\ last'.valid <=>
                        /\ lobby.current_max_bet - p.current_bet < amount
                        /\ amount <= p.wallet
                 /\ last'.valid =>
                        /\ q.wallet = p.wallet - amount
                        /\ q.current_bet = p.current_bet + amount
                        /\ lobby'.pot = lobby.pot + amount
                        /\ lobby'.current_max_bet = q.current_bet
                        /\ q.state = IF q.wallet = 0 THEN "ALL_IN" ELSE "RAISED"]_vars

\* a Raise inside the range was rejected: the bets were cleared, the
\* session still holds the bet of the phase before
C8_Witness ==
    /\ last.name # NoName /\ ~last.valid /\ last.action = "Raise"
    /\ pc[last.name] = "betting"
    /\ lobby.current_max_bet - player[last.name].current_bet < last.arg
    /\ last.arg <= player[last.name].wallet

\* C9: Call is accepted exactly when the wallet is at least
\* current_max_bet - current_bet; an accepted Call moves that amount from
\* the wallet to the pot, makes current_bet equal to current_max_bet, and
\* leaves the seat ALL_IN when the wallet is empty and CALLED otherwise.
C9_Call ==
    [][\A n \in Names :
          (Handles(n) /\ pc[n] = "betting" /\ last'.action = "Call") =>
              LET p == player[n]
                  q == player'[n]
                  call_amount == lobby.current_max_bet - p.current_bet
              IN /\ last'.valid <=> p.wallet >= call_amount
                 /\ last'.valid =>
                        /\ q.wallet = p.wallet - call_amount
                        /\ lobby'.pot = lobby.pot + call_amount
                        /\ q.current_bet = lobby.current_max_bet
                        /\ q.state = IF p.wallet = call_amount
                                     THEN "ALL_IN" ELSE "CALLED"]_vars

\* a Call with a wallet that is exactly the call amount: the seat is ALL_IN
C9_Witness ==
    /\ last.valid /\ last.action = "Call"
    /\ player[last.name].state = "ALL_IN"
    /\ player[last.name].wallet = 0
    /\ player[last.name].current_bet > 0

\* the phases of a Five Card Draw round, in order
Sequence ==
    <<"JOINABLE", "START_OF_ROUND", "ANTE", "DEAL_CARDS", "FIRST_BETTING_ROUND",
      "DRAW", "SECOND_BETTING_ROUND", "SHOWDOWN", "UPDATE_DB", "JOINABLE">>

Follows(a, b) ==
    \E k \in 1..(Len(Sequence) - 1) : Sequence[k] = a /\ Sequence[k + 1] = b

\* C10: game_state only moves to the next phase of the sequence, or jumps
\* to SHOWDOWN when at most one seat is not FOLDED.
C10_PhaseOrder ==
    [][lobby'.game_state # lobby.game_state =>
          \/ Follows(lobby.game_state, lobby'.game_state)
          \/ lobby'.game_state = "SHOWDOWN" /\ check_end_game(players')]_vars

\* a seat left in the middle of a round: the lobby is JOINABLE with the
\* pot and the hands of the round still there
C10_Witness ==
    /\ lobby.game_state = "JOINABLE"
    /\ Left > 0
    /\ lobby.pot > 0
    /\ \E i \in 1..Len(players) : players[i].hand # << >>

\* C11: a Five Card Draw round that has reached START_OF_ROUND reaches
\* SHOWDOWN, then UPDATE_DB, then JOINABLE again: no phase blocks forever.
C11_RoundCompletes ==
    /\ (lobby.game_state = "START_OF_ROUND") ~> (lobby.game_state = "SHOWDOWN")
    /\ (lobby.game_state = "SHOWDOWN") ~> (lobby.game_state = "UPDATE_DB")
    /\ (lobby.game_state = "UPDATE_DB") ~> (lobby.game_state = "JOINABLE")

\* every seat folded at the ante: the session of the last one never leaves
\* get_next_player and never gives the lock back
C11_Witness ==
    /\ lobby.game_state = "SHOWDOWN"
    /\ \A i \in 1..Len(players) : players[i].state = "FOLDED"
    /\ \E n \in Names : pc[n] = "hung" /\ guard = n

\* C12: in a Texas Hold'em round with two or more seats in the hand, a
\* betting round that completes (turns_remaining reaches 0) is followed by
\* the next deal, or by SHOWDOWN after the fourth, when the community cards
\* are five; the community cards number 0, 3, 4 or 5 during a betting round.
C12_DealFollowsBetting ==
    [][/\ (/\ snap' # snap
           /\ snap'.phase = "BETTING_ROUND"
           /\ ~check_end_game(players')) =>
              lobby'.game_state = IF Len(lobby.community_cards) = 5
                                  THEN "SHOWDOWN" ELSE "DEAL_CARDS"
       /\ lobby'.game_state = "BETTING_ROUND" =>
              Len(lobby'.community_cards) \in {0, 3, 4, 5}]_vars

\* the first betting round is complete with two seats in the hand, and the
\* lobby is still in BETTING_ROUND with no community card
C12_Witness ==
    /\ snap.phase = "BETTING_ROUND"
    /\ ~check_end_game(players)
    /\ lobby.game_state = "BETTING_ROUND"
    /\ lobby.turns_remaining = lobby.current_player_count
    /\ lobby.community_cards = << >>

\* C13: in Texas Hold'em, when all seats but one have folded before any
\* community card is dealt, the showdown step awards the whole pot to the
\* seat that is left, deals no community card and moves on to UPDATE_DB
\* (from where the lobby returns to JOINABLE).
C13_LastSeatWinsPot ==
    [][\A n \in Names :
          (/\ pc[n] = "top" /\ pc'[n] # pc[n]
           /\ lobby.current_player_turn = n
           /\ lobby.game_state = "SHOWDOWN"
           /\ Cardinality(NotFolded(players)) = 1
           /\ lobby.community_cards = << >>) =>
              /\ lobby'.game_state = "UPDATE_DB"
              /\ lobby'.community_cards = << >>
              /\ \A i \in NotFolded(players) :
                    players'[i].wallet = players[i].wallet + lobby.pot]_vars

\* one seat went all in and the others folded: the session that runs the
\* showdown has panicked, the pot is still in the lobby
C13_Witness ==
    /\ lobby.game_state = "SHOWDOWN"
    /\ Len(players) = NumPlayers
    /\ Cardinality(NotFolded(players)) = 1
    /\ \A i \in NotFolded(players) : players[i].state = "ALL_IN"
    /\ lobby.community_cards = << >>
    /\ lobby.pot > SmallBlind + BigBlind
    /\ \E n \in Names : pc[n] = "panicked"

\* C14: a session that ends on Disconnect during a hand leaves its seat in
\* the lobby, FOLDED, at the index it had, with the order of the seats
\* unchanged; when the seat was on turn the turn passes to another seat and
\* turns_remaining is what a legal Fold leaves.
C14_DisconnectFolds ==
    [][\A n \in Names :
          (/\ pc[n] # "gone" /\ pc'[n] = "gone"
           /\ lobby.game_state \in RoundStates) =>
              /\ Len(players') = Len(players)
              /\ \A i \in 1..Len(players) :
                    /\ players'[i].name = players[i].name
                    /\ players[i].name = n => players'[i].state = "FOLDED"
              /\ lobby.current_player_turn = n =>
                    /\ lobby'.current_player_turn # n
                    /\ lobby'.turns_remaining \in
                          {lobby.turns_remaining - 1, lobby.current_player_count}]_vars

\* the seat on turn left in the middle of a hand: its seat is gone from the
\* lobby, the turn still names it and the lobby is JOINABLE with chips in
\* the pot
C14_Witness ==
    \E n \in Names :
        /\ pc[n] = "gone"
        /\ \A i \in 1..Len(players) : players[i].name # n
        /\ lobby.current_player_turn = n
        /\ lobby.game_state = "JOINABLE"
        /\ lobby.pot > 0

\* C15: a session that waits for a frame of its client (for the bet or the
\* DrawCards of the seat on turn, or at the bottom of its loop) does not hold
\* the lobby's lock.
C15_NoLockWhileWaiting ==
    \A n \in Names : pc[n] \in {"betting", "drawing", "bottom"} => guard # n

\* the session of the seat on turn waits for the DrawCards of its client
\* with the lobby's lock in its hands
C15_Witness ==
    \E n \in Names :
        /\ pc[n] = "drawing"
        /\ guard = n
        /\ lobby.game_state = "DRAW"
        /\ rx[n] = 0

\* C16: the wait of a session for the frame of the seat on turn stalls its
\* own lobby only: no operation of the server lobby (create, join, list,
\* remove an emptied lobby) waits for a lock that such a session holds, so
\* none is blocked while the seat is silent.
C16_WaitStallsOwnLobbyOnly ==
    \A c \in Clients : Locking(c) # 0 => ~heap[Locking(c)].held

\* remove_lobby of the emptied lobby "b" waits for the lock of lobby "a",
\* whose seat on turn is silent, with the server lobby locked, and the
\* JoinLobby of the other client cannot go on to update_lobby_names_status
C16_Witness ==
    \E c, d \in Clients :
        /\ Locking(c) # 0
        /\ heap[Locking(c)].held
        /\ heap[Locking(c)].name # session[c].name
        /\ server_guard = c
        /\ session[d].at = "joined"

\* C17: the server lobby never lists two lobbies of the same name, and a
\* CreateLobby that names a listed lobby is answered with an error and
\* leaves the list as it is.
C17_UniqueLobbyNames ==
    /\ \A i, j \in 1..Len(lobbies) :
          heap[lobbies[i]].name = heap[lobbies[j]].name => i = j
    /\ \A i, j \in 1..Len(lobby_names_and_status) :
          lobby_names_and_status[i].name = lobby_names_and_status[j].name => i = j

\* two sessions were told that no lobby "a" exists before either added its
\* lobby: the server lobby lists two lobbies "a"
C17_Witness ==
    /\ Len(lobbies) = 2
    /\ heap[lobbies[1]].name = heap[lobbies[2]].name
    /\ \A c \in Clients : session[c].reply = "created"

\* C18: a lobby never seats more players than its max_player_count, and a
\* JoinLobby as a player is admitted only to a lobby with a free seat and no
\* round on: a full lobby turns the joiner away.
C18_NeverOverCapacity ==
    /\ [](\A id \in 1..Len(heap) :
            heap[id].current_player_count <= heap[id].max_player_count)
    /\ [][\A c \in Clients :
             (session[c].at = "server" /\ session'[c].at = "joined"
              /\ session'[c].result = "SUCCESS") =>
                 LET lb == heap[session'[c].lobby]
                 IN /\ lb.current_player_count < lb.max_player_count
                    /\ lb.game_state \notin {"START_OF_ROUND", "FIRST_BETTING_ROUND"}]_vars

\* a sixth player was admitted to a lobby of Five Card Draw, which is
\* listed as JOINABLE again
C18_Witness ==
    \E id \in 1..Len(heap) :
        /\ heap[id].max_player_count = 5
        /\ heap[id].current_player_count = 6
        /\ heap[id].game_state = "JOINABLE"
        /\ \A c \in Clients : session[c].at = "lobby" /\ session[c].lobby = id

\* C19: the deck is never dealt past its last card and a seat exchanges at
\* most five cards in the draw phase: whatever index list a DrawCards frame
\* holds, handling it calls deal() only with the cursor below 52, so the
\* session goes on, and moves the cursor by no more than the five cards of
\* the hand.
C19_NeverPastLastCard ==
    [][\A n \in Names :
          (Handles(n) /\ last'.action = "DrawCards") =>
              /\ pc'[n] # "panicked"
              /\ lobby'.next_card_index < DeckSize
              /\ lobby'.next_card_index - lobby.next_card_index <= HandSize]_vars

\* a DrawCards frame named position 0 often enough to use up the deck: the
\* cursor is at the end of the deck and the session has panicked in deal()
C19_Witness ==
    \E n \in Names :
        /\ pc[n] = "panicked"
        /\ lobby.game_state = "DRAW"
        /\ lobby.current_player_turn = n
        /\ lobby.next_card_index = DeckSize
        /\ last.name = n /\ last.action = "DrawCards" /\ Len(last.arg) = DeckSize

\* C20: a DrawCards frame that names a position outside the five cards of
\* the hand is rejected: no card is dealt, the hand and turns_remaining stay
\* as they are and the seat is still on turn, its session waiting for a
\* valid DrawCards.
C20_BadIndexRejected ==
    [][\A n \in Names :
          (/\ Handles(n) /\ last'.action = "DrawCards"
           /\ \E k \in 1..Len(last'.arg) : last'.arg[k] >= HandSize) =>
              /\ ~last'.valid
              /\ lobby'.next_card_index = lobby.next_card_index
              /\ player'[n].hand = player[n].hand
              /\ lobby'.turns_remaining = lobby.turns_remaining
              /\ lobby'.current_player_turn = n
              /\ pc'[n] = "drawing"]_vars

\* the seat sent position 5 with a hand of five cards: its draw was taken
\* as made and the turn went to another seat
C20_Witness ==
    /\ last.action = "DrawCards"
    /\ last.arg = <<5>>
    /\ last.valid
    /\ Len(player[last.name].hand) = HandSize
    /\ lobby.game_state = "DRAW"
    /\ lobby.current_player_turn # last.name
    /\ pc[last.name] = "bottom"

\* the rules of the categories, by how often each rank is held
Held(h, k) == Cardinality({i \in 1..Len(h) : Rank(h[i]) = k})
RanksHeld(h, times) == {k \in 1..13 : Held(h, k) = times}
OneSuit(h) == Cardinality({Suit(h[i]) : i \in 1..Len(h)}) = 1
Run(h) ==
    /\ Cardinality(RanksHeld(h, 1)) = 5
    /\ \E low \in 1..9 : RanksHeld(h, 1) = low..(low + 4)

Category(h) ==
    IF OneSuit(h) /\ Run(h) THEN 8
    ELSE IF RanksHeld(h, 4) # {} THEN 7
    ELSE IF RanksHeld(h, 3) # {} /\ RanksHeld(h, 2) # {} THEN 6
    ELSE IF OneSuit(h) THEN 5
    ELSE IF Run(h) THEN 4
    ELSE IF RanksHeld(h, 3) # {} THEN 3
    ELSE IF Cardinality(RanksHeld(h, 2)) = 2 THEN 2
    ELSE IF Cardinality(RanksHeld(h, 2)) = 1 THEN 1
    ELSE 0

\* the ranks of a set from the highest down
RECURSIVE Descending(_)
Descending(S) ==
    IF S = {} THEN << >>
    ELSE LET m == CHOOSE x \in S : \A y \in S : y <= x
         IN <<m>> \o Descending(S \ {m})

Padded(s) == [i \in 1..6 |-> IF i <= Len(s) THEN s[i] ELSE 0]

Scored == score # NoScore /\ Len(hand) = HandSize

\* C24: for every hand of five distinct cards the category get_hand_type
\* returns is that of the first rule the hand matches, in the order straight
\* flush 8, four of a kind 7, full house 6, flush 5, straight 4, three of a
\* kind 3, two pair 2, one pair 1, high card 0, the Ace ranked 13 only, so
\* that 10-J-Q-K-A is a straight and A-2-3-4-5 is not.
C24_CategoryOfFirstRule ==
    Scored =>
        /\ score[1] = Category(hand)
        /\ {Rank(hand[i]) : i \in 1..HandSize} = 9..13 => score[1] \in {4, 8}
        /\ {Rank(hand[i]) : i \in 1..HandSize} = {13, 1, 2, 3, 4} => score[1] \in {0, 5}

\* A-2-3-4-5 of two suits was scored as high card
C24_Witness ==
    /\ Scored
    /\ {Rank(hand[i]) : i \in 1..HandSize} = {13, 1, 2, 3, 4}
    /\ ~OneSuit(hand)
    /\ score[1] = 0

\* C25: for every full house get_hand_type returns (6, trip_rank,
\* pair_rank, 0, 0, 0), trip_rank the rank held three times and pair_rank
\* the rank held twice, whichever of the two is the higher.
C25_FullHouseTripThenPair ==
    (Scored /\ Category(hand) = 6) =>
        \E t \in RanksHeld(hand, 3), p \in RanksHeld(hand, 2) :
            score = <<6, t, p, 0, 0, 0>>

\* three Kings and two Aces were scored (6, 12, 12, 0, 0, 0): the pair of
\* Aces is not in the score
C25_Witness ==
    /\ Scored
    /\ RanksHeld(hand, 3) = {12}
    /\ RanksHeld(hand, 2) = {13}
    /\ score = <<6, 12, 12, 0, 0, 0>>

C27_OrderDoesNotMatter ==
    [][(Scored /\ score' # NoScore) => score' = score]_vars

\* a straight flush given from the Ace down, scored after three other
\* orders of it
C27_Witness ==
    /\ Scored
    /\ hand = <<0, 12, 11, 10, 9>>
    /\ score = <<8, 13, 13, 0, 0, 0>>

\* the scores of all hands of five of the seven cards
Fives == {Q \in SUBSET (1..7) : Cardinality(Q) = HandSize}

FiveOfSeven(h) ==
    {get_hand_type([k \in 1..HandSize |-> h[Descending(P)[k]]]) : P \in Fives}

\* a is below b or equals it in the order of the tuples
LexLeq(a, b) ==
    \/ a = b
    \/ \E i \in 1..Len(a) : a[i] < b[i] /\ \A j \in 1..(i - 1) : a[j] = b[j]

\* C28: for every hand of seven cards get_best_hand returns the highest, in
\* the order of the tuples, of the scores get_hand_type gives the 21 hands
\* of five of the seven cards, and so the same score for every order of the
\* seven cards.
C28_BestOfAllSubsets ==
    /\ []((score # NoScore /\ Len(hand) = 7) =>
             /\ Cardinality(Fives) = 21
             /\ score \in FiveOfSeven(hand)
             /\ \A t \in FiveOfSeven(hand) : LexLeq(t, score))
    /\ [][(score # NoScore /\ score' # NoScore) => score' = score]_vars

\* the straight flush is made of the last five of the seven cards as they
\* are given: the Ace and 2 of Diamonds, then Ace, 10, Jack, Queen, King of
\* Hearts
C28_Witness ==
    /\ hand = <<13, 14, 0, 9, 10, 11, 12>>
    /\ score = <<8, 13, 13, 0, 0, 0>>

\* C29: after Deck::new and after shuffle the cursor is 0 and the deck holds
\* each card 0..51 exactly once; each deal returns the card at the cursor and
\* moves the cursor on by one, so the 52 deals that follow return every card
\* exactly once, in the order 0..51 from a new deck.
C29_DeckDealsEachCardOnce ==
    /\ [](/\ Len(deck.cards) = DeckSize
          /\ \A c \in 0..(DeckSize - 1) :
                Cardinality({i \in 1..DeckSize : deck.cards[i] = c}) = 1
          /\ deck.next_card_index = Len(dealt)
          /\ \A i, j \in 1..Len(dealt) : dealt[i] = dealt[j] => i = j
          /\ Len(dealt) = DeckSize =>
                {dealt[i] : i \in 1..DeckSize} = 0..(DeckSize - 1)
          /\ deck.cards = Deck_new.cards =>
                \A i \in 1..Len(dealt) : dealt[i] = i - 1)
    /\ [][/\ dealt' = << >> => deck'.next_card_index = 0
          /\ Len(dealt') = Len(dealt) + 1 =>
                /\ dealt'[Len(dealt')] = deck.cards[deck.next_card_index + 1]
                /\ deck'.next_card_index = deck.next_card_index + 1
                /\ deck'.cards = deck.cards]_vars

\* a shuffled deck was dealt to its last card
C29_Witness ==
    /\ Len(dealt) = DeckSize
    /\ deck.next_card_index = DeckSize
    /\ deck.cards # Deck_new.cards
    /\ dealt = deck.cards

\* the place of a card's suit in the order Spades, Hearts, Diamonds, Clubs
SuitPlace(card) ==
    CASE Suit(card) = 2 -> 1
      [] Suit(card) = 0 -> 2
      [] Suit(card) = 1 -> 3
      [] OTHER -> 4

\* seat i shows a card below that of seat j: by card % 13, then by the suit
ShowsBelow(i, j) ==
    LET a == players[i].hand[3]
        b == players[j].hand[3]
    IN \/ a % 13 < b % 13
       \/ a % 13 = b % 13 /\ SuitPlace(a) < SuitPlace(b)

\* the seat that paid the bring-in
PaidBringIn(i) == players[i].current_bet = BringInAmount

\* seats that were in play when the bring-in was charged
InPlay(i) == players[i].state # "FOLDED"

\* C30: the bring-in is paid by the seat in play whose face-up card has the
\* lowest rank, a tie broken by the suit in the order Spades, Hearts,
\* Diamonds, Clubs, whatever the seats' positions.
C30_BringInByRankThenSuit ==
    lobby.pot = BringInAmount =>
        \A i \in 1..NumPlayers :
            PaidBringIn(i) =>
                \A j \in 1..NumPlayers : (j # i /\ InPlay(j)) => ShowsBelow(i, j)

\* seat 1 shows the 2 of Hearts, seat 2 the 2 of Spades, and seat 1 paid
C30_Witness ==
    /\ lobby.pot = BringInAmount
    /\ players[1].hand[3] = 1
    /\ players[2].hand[3] = 27
    /\ InPlay(2)
    /\ PaidBringIn(1)

\* the session of n handles SHOWDOWN in this step
ShowdownStep(n) == OnTurn(n, "SHOWDOWN") /\ pc'[n] # pc[n]

\* the seats in w, and no other seat, are paid share chips and a game won
PaidTo(w, share) ==
    /\ Len(players') = Len(players)
    /\ \A i \in 1..Len(players) :
          /\ players'[i].wallet = players[i].wallet + (IF i \in w THEN share ELSE 0)
          /\ players'[i].games_won = players[i].games_won + (IF i \in w THEN 1 ELSE 0)

\* C21: at showdown the winners are seats that have not FOLDED (those whose
\* score is the highest); each winner's wallet grows by the pot divided by
\* the number of winners, rounded down, and its games_won by 1, no other
\* seat's wallet or games_won changes, and no more than the pot is paid out.
C21_ShowdownSplitsPot ==
    [][\A n \in Names :
          ShowdownStep(n) =>
              \E w \in SUBSET NotFolded(players) :
                  /\ w # {}
                  /\ PaidTo(w, lobby.pot \div Cardinality(w))
                  /\ Cardinality(w) * (lobby.pot \div Cardinality(w)) <= lobby.pot]_vars

\* a Texas Hold'em session ended in SHOWDOWN with the pot unpaid
C21_Witness ==
    /\ lobby.game_type = "TEXAS_HOLD_EM"
    /\ lobby.game_state = "SHOWDOWN"
    /\ lobby.pot > 0
    /\ \E n \in Names : pc[n] = "panicked" /\ lobby.current_player_turn = n
    /\ \A i \in 1..Len(players) : players[i].games_won = 0

\* the round is closed in this step: UPDATE_DB is handled and the lobby is
\* JOINABLE again, with the seats it had
RoundClosed ==
    /\ lobby.game_state = "UPDATE_DB"
    /\ lobby'.game_state = "JOINABLE"
    /\ Len(players') = Len(players)

FirstLiveFrom(ps, count, i) ==
    LET dist(j) == (j - i + count) % count
        live == {j \in 0..(count - 1) : ps[j + 1].state # "FOLDED"}
    IN CHOOSE j \in live : \A k \in live : dist(j) <= dist(k)

\* C35: get_next_player always returns, and when it does current_player_index
\* is the index of a seat that is not FOLDED, the first one at or after
\* first_betting_player (reset) or after the previous index (no reset), and
\* current_player_turn is that seat's name; also after an ANTE phase that
\* folded seats for lack of chips.
C35_NextPlayerFound ==
    /\ [](\A n \in Names : pc[n] # "hung")
    /\ [][(lobby'.current_player_index # lobby.current_player_index
             /\ Len(players') = Len(players)) =>
            /\ players'[lobby'.current_player_index + 1].state # "FOLDED"
            /\ lobby'.current_player_turn = players'[lobby'.current_player_index + 1].name
            /\ lobby'.current_player_index \in
                 {FirstLiveFrom(players', lobby.current_player_count, lobby.first_betting_player),
                  FirstLiveFrom(players', lobby.current_player_count,
                                (lobby.current_player_index + 1) % lobby.current_player_count)}]_vars

\* every seat was folded at the ante for lack of chips and the session that
\* called get_next_player is in its loop, the lobby locked
C35_Witness ==
    /\ \E n \in Names : pc[n] = "hung" /\ guard = n
    /\ Len(players) = NumPlayers
    /\ \A i \in 1..Len(players) : players[i].state = "FOLDED" /\ players[i].hand = << >>
    /\ lobby.pot = 0

\* every seat that is not FOLDED holds five cards
FiveEach(ps) == \A i \in NotFolded(ps) : Len(ps[i].hand) = HandSize

\* no card is held twice, by one seat or by two
NoCardTwice(ps) ==
    \A i, j \in 1..Len(ps) : \A a \in 1..Len(ps[i].hand), b \in 1..Len(ps[j].hand) :
        ps[i].hand[a] = ps[j].hand[b] => (i = j /\ a = b)

\* the cards were dealt one per turn: between two cards a seat got one after
\* the other, every other seat in the hand got exactly one
OnePerTurn(ps) ==
    \A i, j \in NotFolded(ps) :
        i # j => \A m \in 1..(Len(ps[i].hand) - 1) :
            Cardinality({b \in 1..Len(ps[j].hand) :
                            /\ ps[i].hand[m] < ps[j].hand[b]
                            /\ ps[j].hand[b] < ps[i].hand[m + 1]}) = 1

DrawTurnsTaken == lobby.current_player_count - lobby.turns_remaining

\* C36: in the DRAW phase every seat that is neither FOLDED nor ALL_IN
\* exchanges cards exactly once, whatever the number of FOLDED seats.  The
\* turns go round the seats that are not FOLDED, so a session is asked for
\* its DrawCards for the first time only while fewer turns were taken than
\* there are such seats; asked later, it is asked again.
C36_OneDrawPerSeat ==
    lobby.game_state = "DRAW" =>
        \A n \in Names : pc[n] = "drawing" =>
            /\ lobby.current_player_turn = n
            /\ DrawTurnsTaken < Cardinality(NotFolded(players))

\* one seat folded, the two others, neither ALL_IN, have both had their
\* turn to draw, and one of them is asked for a DrawCards again
C36_Witness ==
    /\ lobby.game_state = "DRAW"
    /\ Len(players) = NumPlayers
    /\ Cardinality(NotFolded(players)) = 2
    /\ \A i \in NotFolded(players) : players[i].state # "ALL_IN"
    /\ DrawTurnsTaken = 2
    /\ \E n \in Names : pc[n] = "drawing" /\ guard = n

\* C32: whenever a frame of the seat on turn is rejected in a betting phase
\* an error frame is sent to that session before it is asked again, and the
\* connection stays open: the session still waits for the seat's frame.
C32_RejectionAnswered ==
    (last.name # NoName /\ ~last.valid /\ lobby.game_state \in BettingStates) =>
        /\ "error" \in last.sent
        /\ pc[last.name] = "betting"

\* a Check with a bet to call was rejected; the session waits for the next
\* frame and nothing was sent
C32_Witness ==
    /\ lobby.game_state \in BettingStates
    /\ last.action = "Check" /\ ~last.valid
    /\ lobby.current_max_bet > 0
    /\ pc[last.name] = "betting" /\ guard = last.name
    /\ last.sent = {}

\* C38: after any sequence of add_player and remove_player calls, a removal
\* of a name that is not seated included, current_player_count is the number
\* of entries of the players list and is not negative, and game_state is
\* GAME_LOBBY_FULL exactly when the count is max_player_count.
C38_CountIsNumberOfSeats ==
    /\ heap[1].current_player_count = Len(heap[1].players)
    /\ heap[1].current_player_count >= 0
    /\ heap[1].game_state = "GAME_LOBBY_FULL" <=>
          heap[1].current_player_count = heap[1].max_player_count

\* remove_player was called for a name without a seat: the count is below
\* the number of seats taken, and below 0 in an empty lobby
C38_Witness ==
    /\ heap[1].players = << >>
    /\ heap[1].current_player_count < 0

\* the rows of the table with the name
RowsOf(t, name) == {i \in 1..Len(t) : t[i].name = name}

\* C33: register_player on a name the store holds fails and leaves the store
\* as it is; on a new name it adds one row with wallet 1000, games_played 0
\* and games_won 0; the store never holds two rows with the same name.
C33_RegisterOncePerName ==
    /\ [](\A name \in UserNames : Cardinality(RowsOf(table, name)) <= 1)
    /\ [][\A c \in Clients :
            (session[c].at = "login" /\ session'[c] # session[c]) =>
                LET name == session'[c].name
                IN IF RowsOf(table, name) # {}
                   THEN /\ table' = table
                        /\ session'[c].reply = "Registration failed"
                   ELSE /\ session'[c].reply = "Registration successful"
                        /\ Len(table') = Len(table) + 1
                        /\ SubSeq(table', 1, Len(table)) = table
                        /\ table'[Len(table')] =
                              [name |-> name, wallet |-> 1000,
                               games_played |-> 0, games_won |-> 0]]_vars

\* a client was refused a name another client had registered, and the table
\* holds that name's one row
C33_Witness ==
    /\ \E c, d \in Clients :
          /\ c # d
          /\ session[c].reply = "Registration failed" /\ session[c].at = "login"
          /\ session[d].reply = "Registration successful"
          /\ session[c].name = session[d].name
          /\ Cardinality(RowsOf(table, session[c].name)) = 1

C40_NoWaitForOwnLock ==
    \A n \in Names : pc[n] # "deadlocked"

\* a session waits in the broadcast of SHOWDOWN, the lobby's lock in its
\* hands, the pot unpaid
C40_Witness ==
    \E n \in Names :
        /\ pc[n] = "deadlocked"
        /\ guard = n
        /\ lobby.game_state = "SHOWDOWN"
        /\ lobby.current_player_turn = n
        /\ lobby.pot > 0

\* the frame added to the frames of connection n in this step, if one was
Got(n, f) == tx'[n] = Append(tx[n], f)

\* C31: every frame the lobby sends to its seated players (the roster, the
\* lobby information, the game information, the showdown hands, a plain
\* message) is sent to every spectator of the lobby as well.
C31_SpectatorsGetEveryFrame ==
    [][\A f \in BroadcastFrames \cup {"lobbyInfo", "gameInfo", "players"} :
          (\E i \in 1..Len(heap[1].players) : Got(heap[1].players[i].name, f))
             => \A j \in 1..Len(spectators) : Got(spectators[j], f)]_vars

\* the seated players were sent the game information and the roster after a
\* spectator joined, and the spectator has only the message of its joining
C31_Witness ==
    /\ Len(spectators) > 0
    /\ tx[spectators[1]] = <<"message">>
    /\ \A i \in 1..Len(heap[1].players) :
          tx[heap[1].players[i].name] = <<"message", "gameInfo", "players">>

\* the session of c is at a lock().await of the mutex l
Awaits(c, l) == Running(c) /\ Instr(c).op = "lock" /\ Instr(c).l = l

====
